---------------------------- MODULE Spec2Model ----------------------------
(***************************************************************************)
(* A model of the core of epub-translator:                                 *)
(*   - the score engine      (xml_translator/score.py),                    *)
(*   - the chunk/split engine (serial: split_into_chunks, split),          *)
(*   - the submitter          (xml_translator/submitter.py).               *)
(* Each engine has its own specification (SpecScore, SpecChunk,            *)
(* SpecSubmit); the variables of the other engines stay at their idle      *)
(* values.                                                                 *)
(***************************************************************************)
EXTENDS Integers, Sequences, FiniteSets, TLC

VARIABLES
    \* ---- score engine
    sPc,        \* "init" | "expanded"
    sTree,      \* index of the inline tree being expanded
    sSegs,      \* the ScoreSegments expand_to_score_segments handed out
    sCall,      \* the last truncate_score_segment call: arguments and result
    sDepth,     \* how many truncations led to the argument of the last call
    \* ---- chunk / split engine
    cPc,        \* "init" | "run" | "done"
    cSegs,      \* the input segments (token counts; position is identity)
    cMax,       \* max_group_tokens
    cChunks,    \* the chunks yielded so far
    cOut,       \* the flat output sequence of split so far
    cCalls,     \* number of transform invocations so far
    \* ---- submitter
    uPc,        \* "idle" | "ready" | "done"
    uTree,      \* the element arena
    uRoot,      \* the element handed to submit
    uAct,       \* SubmitKind
    uMaps,      \* the mappings handed to submit
    uNodes,     \* self._nodes
    uNi,        \* index of the next node of self._nodes to submit
    uPre,       \* the arena before the last _submit_node of do()
    uOrig,      \* the arena handed to submit
    uRet,       \* replaced_root of do(): 0 for None
    \* ---- _nest_nodes, mapping by mapping
    nPc,        \* "idle" | "loop" | "done"
    nTree,      \* the element arena
    nMaps,      \* the mappings handed to _nest_nodes
    nI,         \* index of the next mapping of the loop
    nSt,        \* [stack, out]: the stack and the nodes yielded so far
    nCreated,   \* number of _Node objects constructed so far
    nPopped,    \* number of stack.pop() calls so far
    \* ---- InlineSegment.create_element / validate
    vPc,        \* "idle" | "init" | "built" | "validated"
    vSeg,       \* index of the inline tree of the InlineSegment
    vEl,        \* the element handed to validate
    vEdits,     \* number of changes made to the element since create_element
    vErrors,    \* the errors validate yielded
    \* ---- xml_to_latex
    mPc,        \* "idle" | "built" | "done"
    mEl,        \* the MathML element handed to xml_to_latex
    mWraps,     \* number of parents put around the element
    mRes        \* what the call gave: a string, or an exception

scoreVars == <<sPc, sTree, sSegs, sCall, sDepth>>
chunkVars == <<cPc, cSegs, cMax, cChunks, cOut, cCalls>>
subVars == <<uPc, uTree, uRoot, uAct, uMaps, uNodes, uNi, uPre, uOrig, uRet>>
nestVars == <<nPc, nTree, nMaps, nI, nSt, nCreated, nPopped>>
valVars == <<vPc, vSeg, vEl, vEdits, vErrors>>
mathVars == <<mPc, mEl, mWraps, mRes>>
vars == <<scoreVars, chunkVars, subVars, nestVars, valVars, mathVars>>

(***************************************************************************)
(* Generic sequence helpers.                                               *)
(***************************************************************************)
RECURSIVE Flatten(_)
Flatten(ss) == IF ss = <<>> THEN <<>> ELSE Head(ss) \o Flatten(Tail(ss))

RECURSIVE SumSeq(_)
SumSeq(s) == IF s = <<>> THEN 0 ELSE Head(s) + SumSeq(Tail(s))

Min(a, b) == IF a < b THEN a ELSE b

Max(a, b) == IF a > b THEN a ELSE b

\* Python s[:n] for n >= 0
PyHead(s, n) == SubSeq(s, 1, Min(n, Len(s)))

\* Python s[-n:] for n > 0 (the whole list when n exceeds its length)
PyLast(s, n) == SubSeq(s, Max(1, Len(s) - n + 1), Len(s))

Reverse(s) == [i \in 1..Len(s) |-> s[Len(s) + 1 - i]]

Range(s) == {s[i] : i \in 1..Len(s)}

(***************************************************************************)
(* The tokenizer (tiktoken Encoding, injected).  Text is a sequence of    *)
(* characters; a token is the character sequence it stands for; encode is *)
(* a longest-match segmentation over a vocabulary with multi-character    *)
(* entries (so that re-encoding an edited text can change token           *)
(* boundaries), decode is concatenation.                                   *)
(***************************************************************************)
Vocab ==
    { <<"a", "b">>, <<" ", "a">>, <<" ", "b">>,
      <<".", ".", ".">>, <<" ", ".", ".", ".">>,
      <<"<", "/">>, <<"i", "d", "=">>, <<"9", "9">>, <<"l", "e", "n", "=">>,
      <<"\"", ">">> }

LongestAt(s) ==
    LET fits == {n \in 2..Len(s) : SubSeq(s, 1, n) \in Vocab}
    IN IF fits = {} THEN 1 ELSE CHOOSE n \in fits : \A m \in fits : m <= n

RECURSIVE encode(_)
encode(s) ==
    IF s = <<>> THEN <<>>
    ELSE LET n == LongestAt(s)
         IN <<SubSeq(s, 1, n)>> \o encode(SubSeq(s, n + 1, Len(s)))

decode(tokens) == Flatten(tokens)

\* str.strip() leaves nothing: the text is empty or all whitespace
IsBlank(s) == \A i \in 1..Len(s) : s[i] = " "

(***************************************************************************)
(* Inline segment trees (segment.InlineSegment / TextSegment).  A tree is  *)
(* an arena: node 1 is the root InlineSegment; an inline node has a tag,   *)
(* an id (0 for None) and children, a text node has its text.              *)
(***************************************************************************)
INode(tag, id, children) ==
    [kind |-> "inline", tag |-> tag, id |-> id, children |-> children, text |-> <<>>]

TNode(text) ==
    [kind |-> "text", tag |-> "", id |-> 0, children |-> <<>>, text |-> text]

InlineTrees ==
    << \* <p>a b a</p>
       << INode("p", 0, <<2>>), TNode(<<"a", " ", "b", " ", "a">>) >>,
       \* <p>a<em>b</em>a b</p>
       << INode("p", 0, <<2, 3, 5>>), TNode(<<"a">>), INode("em", 0, <<4>>),
          TNode(<<"b">>), TNode(<<"a", " ", "b">>) >>,
       \* <p>a b<img/>ab a b<img/>a </p>: three adjacent text leaves
       << INode("p", 0, <<2, 3, 4>>), TNode(<<"a", " ", "b">>),
          TNode(<<"a", "b", " ", "a", " ", "b">>), TNode(<<"a", " ">>) >>,
       \* <p><em id=1>a</em><em id=2>b a</em></p>
       << INode("p", 0, <<2, 4>>), INode("em", 1, <<3>>), TNode(<<"a">>),
          INode("em", 2, <<5>>), TNode(<<"b", " ", "a">>) >>,
       \* <p><em><span>a b</span></em>b</p>
       << INode("p", 0, <<2, 5>>), INode("em", 0, <<3>>), INode("span", 0, <<4>>),
          TNode(<<"a", " ", "b">>), TNode(<<"b">>) >>,
       \* <p><em/>a</p>: an inline segment without a text leaf
       << INode("p", 0, <<2, 3>>), INode("em", 0, <<>>), TNode(<<"a">>) >>,
       \* <p><em id=1/><em id=2>a</em></p>: the same with ids
       << INode("p", 0, <<2, 3>>), INode("em", 1, <<>>), INode("em", 2, <<4>>),
          TNode(<<"a">>) >>
    >>

_ID_WEIGHT == 80

_ELLIPSIS == <<".", ".", ".">>

\* DATA_ORIGIN_LEN_KEY of xml_translator/common.py
DATA_ORIGIN_LEN_KEY == <<"l", "e", "n">>

\* _expand_as_wrapped: the UP / leaf / DOWN events of the subtree of node n
RECURSIVE _expand_as_wrapped(_, _)
RECURSIVE ExpandChildren(_, _)
ExpandChildren(tree, cs) ==
    IF cs = <<>> THEN <<>>
    ELSE (IF tree[Head(cs)].kind = "inline"
          THEN _expand_as_wrapped(tree, Head(cs))
          ELSE << <<"TEXT", Head(cs)>> >>)
         \o ExpandChildren(tree, Tail(cs))

\* A walk that never reports leaving an inline segment
ExpandWithoutDown(tree, n) ==
    << <<"UP", n>> >> \o ExpandChildren(tree, tree[n].children)

_expand_as_wrapped(tree, n) ==
    << <<"UP", n>> >> \o ExpandChildren(tree, tree[n].children) \o << <<"DOWN", n>> >>

ScoreSegment(leaf, text, left, right, tokens, score) ==
    [leaf |-> leaf, text |-> text, left_parents |-> left, right_parents |-> right,
     text_tokens |-> tokens, score |-> score]

\* One event of the loop of _do_expand_inline_segment.  st.text_segment is the
\* pending leaf (0 for None), st.out the ScoreSegments yielded so far.
ExpandEvent(tree, st, ev) ==
    LET pending == ScoreSegment(st.text_segment, tree[st.text_segment].text,
                                st.left_parents, st.right_parents, <<>>, 0)
    IN
    IF ev[1] = "TEXT" THEN
        IF st.text_segment = 0
        THEN [st EXCEPT !.text_segment = ev[2]]
        ELSE [text_segment |-> ev[2], left_parents |-> <<>>, right_parents |-> <<>>,
              out |-> Append(st.out, pending)]
    ELSE IF ev[1] = "UP" THEN
        IF st.text_segment # 0
        THEN [text_segment |-> 0, left_parents |-> <<ev[2]>>, right_parents |-> <<>>,
              out |-> Append(st.out, pending)]
        ELSE [st EXCEPT !.left_parents = Append(@, ev[2])]
    ELSE \* DOWN
        IF st.text_segment = 0
        THEN [st EXCEPT !.left_parents = <<>>]
        ELSE [st EXCEPT !.right_parents = Append(@, ev[2])]

RECURSIVE ExpandLoop(_, _, _)
ExpandLoop(tree, st, evs) ==
    IF evs = <<>> THEN st ELSE ExpandLoop(tree, ExpandEvent(tree, st, Head(evs)), Tail(evs))

\* An expansion that does not yield the leaf still pending when the events end
ExpandWithoutLastFlush(tree) ==
    ExpandLoop(tree,
               [text_segment |-> 0, left_parents |-> <<>>,
                right_parents |-> <<>>, out |-> <<>>],
               _expand_as_wrapped(tree, 1)).out

_do_expand_inline_segment(tree) ==
    LET st == ExpandLoop(tree,
                         [text_segment |-> 0, left_parents |-> <<>>,
                          right_parents |-> <<>>, out |-> <<>>],
                         _expand_as_wrapped(tree, 1))
    IN IF st.text_segment # 0
       THEN Append(st.out, ScoreSegment(st.text_segment, tree[st.text_segment].text,
                                        st.left_parents, st.right_parents, <<>>, 0))
       ELSE st.out

\* _render_score_segment: the characters of the standalone fragment
RenderOpen(tree, seg, is_first, i) ==
    LET parent == tree[seg.left_parents[i]]
    IN <<"<", parent.tag>>
       \o (IF parent.id # 0 THEN <<" ", "i", "d", "=", "\"", "9", "9", "\"">> ELSE <<>>)
       \o (IF is_first /\ i = 1
           THEN <<" ">> \o DATA_ORIGIN_LEN_KEY \o <<"=", "\"", "9", "9", "9", "9", "\"">>
           ELSE <<>>)
       \o <<">">>

RenderClose(tree, seg, i) == <<"<", "/", tree[seg.right_parents[i]].tag, ">">>

_render_score_segment(tree, seg, is_first) ==
    Flatten([i \in 1..Len(seg.left_parents) |-> RenderOpen(tree, seg, is_first, i)])
    \o seg.text
    \o Flatten([i \in 1..Len(seg.right_parents) |->
                   RenderClose(tree, seg, Len(seg.right_parents) + 1 - i)])

IdCount(tree, seg) ==
    Cardinality({i \in 1..Len(seg.left_parents) : tree[seg.left_parents[i]].id # 0})

expand_to_score_segments(tree) ==
    LET raw == _do_expand_inline_segment(tree)
    IN [i \in 1..Len(raw) |->
          LET xml_text == _render_score_segment(tree, raw[i], i = 1)
          IN [raw[i] EXCEPT
                !.text_tokens = encode(raw[i].text),
                !.score = Len(encode(xml_text)) + _ID_WEIGHT * IdCount(tree, raw[i])]]

\* A truncation that re-measures the text with its ellipsis and adds it to the score
truncate_remeasured(seg, remain_head, remain_score) ==
    LET fixed == seg.score - Len(seg.text_tokens)
        n == remain_score - fixed
        kept == IF remain_head THEN decode(PyHead(seg.text_tokens, n))
                ELSE decode(PyLast(seg.text_tokens, n))
        remain_text == IF remain_head THEN kept \o <<" ">> \o _ELLIPSIS
                       ELSE _ELLIPSIS \o <<" ">> \o kept
    IN IF remain_score <= fixed \/ IsBlank(kept) THEN <<>>
       ELSE << [seg EXCEPT !.text = remain_text,
                           !.text_tokens = encode(remain_text),
                           !.score = Len(encode(remain_text)) + fixed] >>

\* A truncation that keeps the first tokens whatever remain_head says
TruncateKeepingHeadAlways(seg, remain_head, remain_score) ==
    LET fixed == seg.score - Len(seg.text_tokens)
        n == remain_score - fixed
        Result(kept) ==
            IF remain_score <= fixed \/ IsBlank(kept) THEN <<>>
            ELSE << [seg EXCEPT !.text = IF remain_head THEN kept \o <<" ">> \o _ELLIPSIS
                                         ELSE _ELLIPSIS \o <<" ">> \o kept,
                                !.text_tokens = encode(IF remain_head
                                                       THEN kept \o <<" ">> \o _ELLIPSIS
                                                       ELSE _ELLIPSIS \o <<" ">> \o kept),
                                !.score = n + fixed] >>
    IN Result(decode(PyHead(seg.text_tokens, n)))

\* A truncation that marks both sides of the kept text with an ellipsis
TruncateDoubleEllipsis(seg, remain_head, remain_score) ==
    LET fixed == seg.score - Len(seg.text_tokens)
        n == remain_score - fixed
        Result(kept) ==
            IF remain_score <= fixed \/ IsBlank(kept) THEN <<>>
            ELSE << [seg EXCEPT !.text = _ELLIPSIS \o <<" ">> \o kept \o <<" ">> \o _ELLIPSIS,
                                !.text_tokens = encode(_ELLIPSIS \o <<" ">> \o kept
                                                       \o <<" ">> \o _ELLIPSIS),
                                !.score = n + fixed] >>
    IN Result(IF remain_head THEN decode(PyHead(seg.text_tokens, n))
              ELSE decode(PyLast(seg.text_tokens, n)))

\* truncate_score_segment: <<>> for None, else <<the new ScoreSegment>>
truncate_score_segment(seg, remain_head, remain_score) ==
    LET fixed_score == seg.score - Len(seg.text_tokens)
        remain_text_tokens_count == remain_score - fixed_score
        kept == IF remain_head
                THEN decode(PyHead(seg.text_tokens, remain_text_tokens_count))
                ELSE decode(PyLast(seg.text_tokens, remain_text_tokens_count))
        remain_text == IF remain_head
                       THEN kept \o <<" ">> \o _ELLIPSIS
                       ELSE _ELLIPSIS \o <<" ">> \o kept
    IN IF remain_score <= fixed_score THEN <<>>
       ELSE IF IsBlank(kept) THEN <<>>
       ELSE << [seg EXCEPT !.text = remain_text,
                           !.text_tokens = encode(remain_text),
                           !.score = remain_text_tokens_count + fixed_score] >>

fixed_score(seg) == seg.score - Len(seg.text_tokens)

(***************************************************************************)
(* The score engine as a state machine: an inline tree is expanded, then   *)
(* ScoreSegments are truncated; the result of a truncation is a            *)
(* ScoreSegment and may be truncated again.                                *)
(***************************************************************************)
MaxBelow == 1

MaxKeep == 4

MaxDepth == 2

NoCall == [seg |-> <<>>, remain_head |-> TRUE, remain_score |-> 0, res |-> <<>>]

ScoreInit ==
    /\ sPc = "init"
    /\ sTree \in 1..Len(InlineTrees)
    /\ sSegs = <<>>
    /\ sCall = NoCall
    /\ sDepth = 0
    /\ cPc = "idle" /\ cSegs = <<>> /\ cMax = 0 /\ cChunks = <<>> /\ cOut = <<>>
    /\ cCalls = 0
    /\ uPc = "idle" /\ uTree = <<>> /\ uRoot = 0 /\ uAct = "REPLACE" /\ uMaps = <<>>
    /\ uNodes = <<>> /\ uNi = 0 /\ uPre = <<>> /\ uOrig = <<>> /\ uRet = 0
    /\ nPc = "idle" /\ nTree = <<>> /\ nMaps = <<>> /\ nI = 0
    /\ nSt = [stack |-> <<>>, out |-> <<>>] /\ nCreated = 0 /\ nPopped = 0
    /\ vPc = "idle" /\ vSeg = 0 /\ vEl = <<>> /\ vEdits = 0 /\ vErrors = <<>>
    /\ mPc = "idle" /\ mEl = <<>> /\ mWraps = 0 /\ mRes = <<>>

Expand ==
    /\ sPc = "init"
    /\ sSegs' = expand_to_score_segments(InlineTrees[sTree])
    /\ sPc' = "expanded"
    /\ UNCHANGED <<sTree, sCall, sDepth, chunkVars, subVars, nestVars, valVars, mathVars>>

DoTruncate(seg, depth) ==
    \E remain_head \in BOOLEAN, d \in (0 - MaxBelow)..MaxKeep :
        LET remain_score == fixed_score(seg) + d
        IN /\ sCall' = [seg |-> <<seg>>, remain_head |-> remain_head,
                        remain_score |-> remain_score,
                        res |-> truncate_score_segment(seg, remain_head, remain_score)]
           /\ sDepth' = depth
           /\ sPc' = "called"
           /\ UNCHANGED <<sTree, sSegs, chunkVars, subVars, nestVars, valVars, mathVars>>

Truncate ==
    /\ sPc \in {"expanded", "called"}
    /\ \E i \in 1..Len(sSegs) : DoTruncate(sSegs[i], 1)

TruncateAgain ==
    /\ sPc = "called"
    /\ sCall.res # <<>>
    /\ sDepth < MaxDepth
    /\ DoTruncate(sCall.res[1], sDepth + 1)

ScoreNext == Expand \/ Truncate \/ TruncateAgain

SpecScore == ScoreInit /\ [][ScoreNext]_vars

(***************************************************************************)
(* The chunk / split engine (serial.chunk.split_into_chunks, serial.split).*)
(* A segment is its position in the input and its token count.             *)
(***************************************************************************)
MaxN == 4

MaxTok == 3

MaxGroup == 4

Segments(toks) == [i \in 1..Len(toks) |-> [id |-> i, tokens |-> toks[i]]]

TokenSum(ss) == SumSeq([i \in 1..Len(ss) |-> ss[i].tokens])

\* The body of the chunk that starts at a segment: the longest run whose token
\* sum fits max_group_tokens, and at least that one segment.
RECURSIVE BodyEnd(_, _, _, _)
BodyEnd(segs, max, e, used) ==
    IF e < Len(segs) /\ used + segs[e + 1].tokens <= max
    THEN BodyEnd(segs, max, e + 1, used + segs[e + 1].tokens)
    ELSE e

\* Head context: whole segments before the body, nearest first, within the budget
RECURSIVE HeadStart(_, _, _)
HeadStart(segs, s, budget) ==
    IF s > 1 /\ segs[s - 1].tokens <= budget
    THEN HeadStart(segs, s - 1, budget - segs[s - 1].tokens)
    ELSE s

\* Tail context taken without looking at the budget
TailEndGreedy(segs, e, budget) == IF e < Len(segs) THEN e + 1 ELSE e

\* Tail context: whole segments after the body, nearest first, within the budget
RECURSIVE TailEnd(_, _, _)
TailEnd(segs, e, budget) ==
    IF e < Len(segs) /\ segs[e + 1].tokens <= budget
    THEN TailEnd(segs, e + 1, budget - segs[e + 1].tokens)
    ELSE e

\* The share of max_group_tokens kept free on each side of a body for context
ContextShare(max) == max \div 3

ChunkAt(segs, max, pos) ==
    LET e == BodyEnd(segs, max - 2 * ContextShare(max), pos, segs[pos].tokens)
        room == Max(0, max - TokenSum(SubSeq(segs, pos, e)))
        headBudget == room \div 2
        hs == HeadStart(segs, pos, headBudget)
        tailBudget == room - TokenSum(SubSeq(segs, hs, pos - 1))
        te == TailEnd(segs, e, tailBudget)
    IN [head |-> SubSeq(segs, hs, pos - 1),
        body |-> SubSeq(segs, pos, e),
        tail |-> SubSeq(segs, e + 1, te),
        head_remain_tokens |-> headBudget,
        tail_remain_tokens |-> tailBudget]

\* A chunking whose next body starts one segment too far
RECURSIVE ChunksFromSkipping(_, _, _)
ChunksFromSkipping(segs, max, pos) ==
    IF pos > Len(segs) THEN <<>>
    ELSE LET c == ChunkAt(segs, max, pos)
         IN <<c>> \o ChunksFromSkipping(segs, max, pos + Len(c.body) + 1)

RECURSIVE ChunksFrom(_, _, _)
ChunksFrom(segs, max, pos) ==
    IF pos > Len(segs) THEN <<>>
    ELSE LET c == ChunkAt(segs, max, pos)
         IN <<c>> \o ChunksFrom(segs, max, pos + Len(c.body))

EmptyChunk ==
    [head |-> <<>>, body |-> <<>>, tail |-> <<>>,
     head_remain_tokens |-> 0, tail_remain_tokens |-> 0]

\* A chunking that yields one empty chunk for an empty input
split_into_chunks_never_empty(segs, max) ==
    IF segs = <<>> THEN <<EmptyChunk>> ELSE ChunksFrom(segs, max, 1)

split_into_chunks(segs, max) == ChunksFrom(segs, max, 1)

\* The transform: length-preserving; a result says which input segment it is the
\* result for, and in which call and at which position it was produced.
transform(call, window) ==
    [j \in 1..Len(window) |-> [src |-> window[j].id, call |-> call, at |-> j]]

\* transformed[len(head):-len(tail)] as Python reads it: empty when tail is empty
KeepBodyNegativeSlice(transformed, chunk) ==
    IF Len(chunk.tail) = 0 THEN <<>>
    ELSE SubSeq(transformed, Len(chunk.head) + 1, Len(transformed) - Len(chunk.tail))

\* The slice of a transform result at the body's positions
KeepBody(transformed, chunk) ==
    SubSeq(transformed, Len(chunk.head) + 1, Len(transformed) - Len(chunk.tail))

RECURSIVE Tuples(_, _)
Tuples(n, S) ==
    IF n = 0 THEN {<<>>} ELSE {Append(t, x) : t \in Tuples(n - 1, S), x \in S}

ChunkInit ==
    /\ cPc = "run"
    /\ \E n \in 0..MaxN : \E toks \in Tuples(n, 1..MaxTok) : cSegs = Segments(toks)
    /\ cMax \in 1..MaxGroup
    /\ cChunks = <<>>
    /\ cOut = <<>>
    /\ cCalls = 0
    /\ sPc = "idle" /\ sTree = 0 /\ sSegs = <<>> /\ sCall = NoCall /\ sDepth = 0
    /\ uPc = "idle" /\ uTree = <<>> /\ uRoot = 0 /\ uAct = "REPLACE" /\ uMaps = <<>>
    /\ uNodes = <<>> /\ uNi = 0 /\ uPre = <<>> /\ uOrig = <<>> /\ uRet = 0
    /\ nPc = "idle" /\ nTree = <<>> /\ nMaps = <<>> /\ nI = 0
    /\ nSt = [stack |-> <<>>, out |-> <<>>] /\ nCreated = 0 /\ nPopped = 0
    /\ vPc = "idle" /\ vSeg = 0 /\ vEl = <<>> /\ vEdits = 0 /\ vErrors = <<>>
    /\ mPc = "idle" /\ mEl = <<>> /\ mWraps = 0 /\ mRes = <<>>

\* One turn of the loop of split: the next chunk, its transform call, its kept slice
SplitStep ==
    /\ cPc = "run"
    /\ Len(cChunks) < Len(split_into_chunks(cSegs, cMax))
    /\ LET chunk == split_into_chunks(cSegs, cMax)[Len(cChunks) + 1]
           transformed == transform(cCalls + 1, chunk.head \o chunk.body \o chunk.tail)
       IN /\ cChunks' = Append(cChunks, chunk)
          /\ cCalls' = cCalls + 1
          /\ cOut' = cOut \o KeepBody(transformed, chunk)
    /\ UNCHANGED <<cPc, cSegs, cMax, scoreVars, subVars, nestVars, valVars, mathVars>>

SplitFinish ==
    /\ cPc = "run"
    /\ Len(cChunks) = Len(split_into_chunks(cSegs, cMax))
    /\ cPc' = "done"
    /\ UNCHANGED <<cSegs, cMax, cChunks, cOut, cCalls, scoreVars, subVars, nestVars, valVars, mathVars>>

ChunkNext == SplitStep \/ SplitFinish

SpecChunk == ChunkInit /\ [][ChunkNext]_vars

(***************************************************************************)
(* The submitter (xml_translator/submitter.py).                            *)
(*                                                                         *)
(* The element tree is an arena: a sequence of elements, an element being  *)
(* its index.  text and tail are <<>> for None and <<s>> for the string s; *)
(* a string is a sequence of atoms <<k, j>>: k = 0 for text of the         *)
(* original document, k >= 1 for the translated text of the k-th mapping.  *)
(***************************************************************************)
None == <<>>

Some(str) == <<str>>

Space == <<0, 0>>

Elem(tag, text, tail, kids) == [tag |-> tag, text |-> text, tail |-> tail, kids |-> kids]

InlineTags == {"em", "span"}

\* xml.is_inline_element
is_inline_element(t, e) == t[e].tag \in InlineTags

\* "if s:" for an optional string
Truthy(opt) == opt # None /\ opt[1] # <<>>

\* xml.index_of_parent, with Python's 0-based index
index_of_parent(t, parent, e) ==
    (CHOOSE i \in 1..Len(t[parent].kids) : t[parent].kids[i] = e) - 1

\* list.insert(i, x) for i >= 0
PyInsert(s, i, x) ==
    IF i >= Len(s) THEN Append(s, x)
    ELSE SubSeq(s, 1, i) \o <<x>> \o SubSeq(s, i + 1, Len(s))

\* Element.insert(i, x) for each x of xs in turn, at i, i + 1, ...
RECURSIVE InsertAll(_, _, _)
InsertAll(s, i, xs) ==
    IF xs = <<>> THEN s ELSE InsertAll(PyInsert(s, i, Head(xs)), i + 1, Tail(xs))

\* A removal that takes the first child, whatever x is
RemoveFirstChild(s, x) == Tail(s)

\* Element.remove(x): the first occurrence
PyRemove(s, x) ==
    LET i == CHOOSE j \in 1..Len(s) : s[j] = x /\ \A h \in 1..(j - 1) : s[h] # x
    IN SubSeq(s, 1, i - 1) \o SubSeq(s, i + 1, Len(s))

SetTail(t, e, v) == [t EXCEPT ![e].tail = v]

SetText(t, e, v) == [t EXCEPT ![e].text = v]

SetKids(t, e, v) == [t EXCEPT ![e].kids = v]

\* A loop over the preserved children that leaves their tails alone
KeepTails(t, es) == t

\* "child.tail = None" for each preserved child
RECURSIVE ClearTails(_, _)
ClearTails(t, es) == IF es = <<>> THEN t ELSE ClearTails(SetTail(t, Head(es), None), Tail(es))

\* xml.iter_with_stack: the element and its descendants, in document order
RECURSIVE iter_with_stack(_, _)
iter_with_stack(t, e) ==
    <<e>> \o Flatten([i \in 1..Len(t[e].kids) |-> iter_with_stack(t, t[e].kids[i])])

\* An inclusion test that says yes to everything
IncludesAnything(t, parent, child) == TRUE

_check_includes(t, parent, child) == child \in Range(iter_with_stack(t, parent))

\* _Submitter._collect_parents: the parent of e in the tree under root, 0 for none
ParentOf(t, root, e) ==
    LET ps == {q \in Range(iter_with_stack(t, root)) : e \in Range(t[q].kids)}
    IN IF ps = {} THEN 0 ELSE CHOOSE q \in ps : TRUE

_collect_parents(t, root) == [e \in 1..Len(t) |-> ParentOf(t, root, e)]

(***************************************************************************)
(* Translated text.  A TextSegment of a mapping is its text and whether,   *)
(* below its block, it lies in an inline element (wrap).                   *)
(* segment.combine_text_segments builds one element from the segments of a *)
(* block: the block's tag, the leading unwrapped text as its text, one     *)
(* inline child per wrapped segment, unwrapped text after a child as that  *)
(* child's tail.                                                           *)
(***************************************************************************)
TextSeg(text, wrap) == [text |-> text, wrap |-> wrap]

OptCat(opt, str) == IF opt = None THEN Some(str) ELSE Some(opt[1] \o str)

\* c.text is the text of the combined element, c.kids the children built so far
RECURSIVE CombineLoop(_, _)
CombineLoop(c, segs) ==
    IF segs = <<>> THEN c
    ELSE LET sg == Head(segs)
             n == Len(c.kids)
         IN CombineLoop(
              IF sg.wrap
              THEN [c EXCEPT !.kids = Append(@, Elem("em", Some(sg.text), None, <<>>))]
              ELSE IF n = 0
              THEN [c EXCEPT !.text = OptCat(@, sg.text)]
              ELSE [c EXCEPT !.kids[n].tail = OptCat(@, sg.text)],
              Tail(segs))

\* _Submitter._combine_text_segments: el = 0 for None; the new elements are
\* allocated at the end of the arena, the children first, the combined element last
_combine_text_segments(t, raw, segs) ==
    LET Build(c) ==
            [t |-> t \o c.kids
                     \o << Elem(t[raw].tag, c.text, None,
                                [i \in 1..Len(c.kids) |-> Len(t) + i]) >>,
             el |-> Len(t) + Len(c.kids) + 1]
    IN IF segs = <<>> THEN [t |-> t, el |-> 0]
       ELSE Build(CombineLoop([text |-> None, kids |-> <<>>], segs))

(***************************************************************************)
(* _nest_nodes.  A _Node is [raw_element, items, tail_text_segments], an   *)
(* item <<text segments, child node>>; a mapping is [el, segs].            *)
(***************************************************************************)
Node(raw, items, tail) ==
    [raw_element |-> raw, items |-> items, tail_text_segments |-> tail]

\* A fold that yields the popped node although it went into its parent's items
FoldTopAlsoYielding(st, yielded) ==
    LET n == Len(st.stack)
        child_node == st.stack[n]
    IN IF n = 1
       THEN [stack |-> <<>>, out |-> Append(st.out, child_node)]
       ELSE [stack |-> [SubSeq(st.stack, 1, n - 1) EXCEPT ![n - 1] =
                          Node(st.stack[n - 1].raw_element,
                               Append(st.stack[n - 1].items,
                                      <<st.stack[n - 1].tail_text_segments, child_node>>),
                               <<>>)],
             out |-> Append(st.out, child_node)]

\* _fold_top_of_stack, on st = [stack, out]: yielded says whether a node that
\* is returned is yielded
_fold_top_of_stack(st, yielded) ==
    LET n == Len(st.stack)
        child_node == st.stack[n]
    IN IF n = 1
       THEN [stack |-> <<>>,
             out |-> IF yielded THEN Append(st.out, child_node) ELSE st.out]
       ELSE LET parent_node == st.stack[n - 1]
            IN [stack |-> [SubSeq(st.stack, 1, n - 1) EXCEPT ![n - 1] =
                             Node(parent_node.raw_element,
                                  Append(parent_node.items,
                                         <<parent_node.tail_text_segments, child_node>>),
                                  <<>>)],
                out |-> st.out]

RECURSIVE FoldTo(_, _, _)
FoldTo(st, keep_depth, yielded) ==
    IF Len(st.stack) > keep_depth
    THEN FoldTo(_fold_top_of_stack(st, yielded), keep_depth, yielded)
    ELSE st

\* The largest i of a set of stack indices, 0 for none
TopMost(is) == IF is = {} THEN 0 ELSE CHOOSE i \in is : \A j \in is : j <= i

\* "if stack[i].raw_element is block_element": the element is open on the stack
Upwards(st, m) == \E i \in 1..Len(st.stack) : st.stack[i].raw_element = m.el

\* A loop body that opens a new node for every mapping
NestStepNeverUpwards(t, st, m) ==
    [stack |-> Append(st.stack, Node(m.el, <<>>, m.segs)), out |-> st.out]

\* One mapping of the loop of _nest_nodes
NestStep(t, st, m) ==
    LET up == TopMost({i \in 1..Len(st.stack) : st.stack[i].raw_element = m.el})
        upwards == up > 0
        keep_depth ==
            IF upwards THEN up
            ELSE TopMost({i \in 1..Len(st.stack) :
                            _check_includes(t, st.stack[i].raw_element, m.el)})
        folded == FoldTo(st, keep_depth, ~upwards)
    IN IF upwards
       THEN [folded EXCEPT !.stack[keep_depth].tail_text_segments = @ \o m.segs]
       ELSE [folded EXCEPT !.stack = Append(@, Node(m.el, <<>>, m.segs))]

RECURSIVE NestLoop(_, _, _)
NestLoop(t, st, ms) ==
    IF ms = <<>> THEN st ELSE NestLoop(t, NestStep(t, st, Head(ms)), Tail(ms))

_nest_nodes(t, mappings) ==
    FoldTo(NestLoop(t, [stack |-> <<>>, out |-> <<>>], mappings), 0, TRUE).out

(***************************************************************************)
(* _Submitter.  cx = [act, par] is the SubmitKind and self._parents; every *)
(* method takes the arena and gives the arena it leaves.                   *)
(***************************************************************************)
RStrip(str) ==
    LET n == IF \A i \in 1..Len(str) : str[i] = Space THEN 0
             ELSE CHOOSE i \in 1..Len(str) :
                    str[i] # Space /\ \A j \in (i + 1)..Len(str) : str[j] = Space
    IN SubSeq(str, 1, n)

LStrip(str) ==
    LET n == IF \A i \in 1..Len(str) : str[i] = Space THEN Len(str) + 1
             ELSE CHOOSE i \in 1..Len(str) :
                    str[i] # Space /\ \A j \in 1..(i - 1) : str[j] = Space
    IN SubSeq(str, n, Len(str))

\* An append that joins with a space whatever will_inject_space says
AppendTextAlwaysSpaced(origin_text, append_text, will_inject_space) ==
    IF origin_text = None THEN Some(append_text)
    ELSE Some(RStrip(origin_text[1]) \o <<Space>> \o LStrip(append_text))

\* _Submitter._append_text_in_element
_append_text_in_element(origin_text, append_text, will_inject_space) ==
    IF origin_text = None THEN Some(append_text)
    ELSE IF will_inject_space
    THEN Some(RStrip(origin_text[1]) \o <<Space>> \o LStrip(append_text))
    ELSE Some(origin_text[1] \o append_text)

RECURSIVE NonInline(_, _)
NonInline(t, es) ==
    IF es = <<>> THEN <<>>
    ELSE (IF is_inline_element(t, Head(es)) THEN <<>> ELSE <<Head(es)>>)
         \o NonInline(t, Tail(es))

\* _Submitter._remove_elements_after_tail; tail_element = 0 and end_index = -1
\* stand for None.  Gives [t, preserved].
_remove_elements_after_tail(t, node_element, tail_element, end_index) ==
    LET start_index == IF tail_element = 0 THEN 0
                       ELSE index_of_parent(t, node_element, tail_element) + 1
        t1 == IF tail_element = 0 THEN SetText(t, node_element, None)
              ELSE SetTail(t, tail_element, None)
        kids == t1[node_element].kids
        end == IF end_index = -1 THEN Len(kids) ELSE end_index
        preserved_elements == NonInline(t1, SubSeq(kids, start_index + 1, end))
        t2 == ClearTails(t1, preserved_elements)
    IN [t |-> SetKids(t2, node_element,
                      IF end > start_index
                      THEN SubSeq(kids, 1, start_index) \o SubSeq(kids, end + 1, Len(kids))
                      ELSE kids),
        preserved |-> preserved_elements]

\* _Submitter._append_combined_after_tail; tail_element, anchor_element = 0 for None
_append_combined_after_tail(cx, t, node_element, text_segments, tail_element, anchor_element, append_to_end) ==
    LET \* "for i, child in enumerate(combined)": the children go into node_element
        InsertChildren(t2, combined) ==
            LET insert_position ==
                    IF tail_element # 0
                    THEN index_of_parent(t2, node_element, tail_element) + 1
                    ELSE IF append_to_end THEN Len(t2[node_element].kids)
                    ELSE IF anchor_element # 0
                    THEN index_of_parent(t2, node_element, anchor_element)
                    ELSE 0
            IN SetKids(t2, node_element,
                       InsertAll(t2[node_element].kids, insert_position,
                                 t2[combined].kids))
        \* "if combined.text:": the text goes before the children
        AppendText(t1, combined) ==
            LET will_inject_space ==
                    \/ cx.act = "APPEND_TEXT"
                    \/ is_inline_element(t1, combined) /\ cx.act = "APPEND_BLOCK"
                App(origin) == _append_text_in_element(origin, t1[combined].text[1],
                                                       will_inject_space)
                ref_index == index_of_parent(t1, node_element, anchor_element)
                prev_element == t1[node_element].kids[ref_index]
            IN IF ~Truthy(t1[combined].text) THEN t1
               ELSE IF tail_element # 0
               THEN SetTail(t1, tail_element, App(t1[tail_element].tail))
               ELSE IF anchor_element = 0
               THEN SetText(t1, node_element, App(t1[node_element].text))
               ELSE IF ref_index > 0
               THEN SetTail(t1, prev_element, App(t1[prev_element].tail))
               ELSE SetText(t1, node_element, App(t1[node_element].text))
        Combined(cb) ==
            IF cb.el = 0 THEN t ELSE InsertChildren(AppendText(cb.t, cb.el), cb.el)
    IN Combined(_combine_text_segments(t, node_element, text_segments))

\* _find_anchor_in_parent: 0 for None
_find_anchor_in_parent(t, parent, descendant) ==
    LET kids == t[parent].kids
        holding == {i \in 1..Len(kids) : _check_includes(t, kids[i], descendant)}
    IN IF descendant \in Range(kids) THEN descendant
       ELSE IF holding = {} THEN 0
       ELSE kids[CHOOSE i \in holding : \A j \in holding : i <= j]

\* A block submission that detaches the original's tail whatever was inserted
SubmitByBlockUnguarded(cx, t, node) ==
    LET raw == node.raw_element
    IN IF cx.par[raw] = 0 THEN [t |-> t, ret |-> raw]
       ELSE [t |-> SetTail(t, raw, None), ret |-> 0]

\* _Submitter._submit_by_block: gives [t, ret], ret = 0 for None
_submit_by_block(cx, t, node) ==
    LET raw == node.raw_element
        parent == cx.par[raw]
        preserved_elements ==
            IF cx.act = "REPLACE" THEN NonInline(t, t[raw].kids) ELSE <<>>
        \* "if combined is not None or preserved_elements:"
        MoveTail(t3, combined) ==
            LET last == IF preserved_elements # <<>>
                        THEN preserved_elements[Len(preserved_elements)]
                        ELSE combined
            IN IF combined = 0 /\ preserved_elements = <<>> THEN t3
               ELSE IF cx.act = "REPLACE"
               THEN SetKids(SetTail(SetTail(t3, last, t3[raw].tail), raw, None),
                            parent, PyRemove(t3[parent].kids, raw))
               ELSE SetTail(SetTail(t3, last, t3[raw].tail), raw, None)
        \* "for elem in preserved_elements:"
        InsertPreserved(t2, index, combined) ==
            MoveTail(SetKids(t2, parent,
                             InsertAll(t2[parent].kids, index + 1, preserved_elements)),
                     combined)
        \* "if combined is not None:"
        InsertCombined(t1, index, combined) ==
            IF combined = 0 THEN InsertPreserved(t1, index, combined)
            ELSE InsertPreserved(
                   SetKids(IF /\ cx.act = "APPEND_BLOCK"
                              /\ is_inline_element(t1, combined)
                              /\ Truthy(t1[combined].text)
                           THEN SetText(t1, combined,
                                        Some(<<Space>> \o t1[combined].text[1]))
                           ELSE t1,
                           parent, PyInsert(t1[parent].kids, index + 1, combined)),
                   index + 1, combined)
        Combined(cb) == InsertCombined(cb.t, index_of_parent(cb.t, parent, raw), cb.el)
    IN IF parent = 0 THEN [t |-> t, ret |-> raw]
       ELSE [t |-> Combined(_combine_text_segments(ClearTails(t, preserved_elements),
                                                   raw, node.tail_text_segments)),
             ret |-> 0]

\* id(node) of a _Node and id(element) of an Element: two objects alive at
\* the same time never share an id
NodeKey(node) == <<"node", node.raw_element>>

ElemKey(e) == <<"element", e>>

\* The first loop of _submit_by_text: tail_elements as a set of
\* <<child element, the mapped child before it>>
RECURSIVE TailElementsLoop(_, _, _, _)
TailElementsLoop(child_nodes, kids, last_tail_element, tail_elements) ==
    IF kids = <<>> THEN tail_elements
    ELSE LET child_element == Head(kids)
         IN IF ElemKey(child_element) \in child_nodes
            THEN TailElementsLoop(child_nodes, Tail(kids), child_element,
                                  IF last_tail_element # 0
                                  THEN tail_elements
                                       \cup {<<child_element, last_tail_element>>}
                                  ELSE tail_elements)
            ELSE TailElementsLoop(child_nodes, Tail(kids), last_tail_element,
                                  tail_elements)

DictGet(pairs, key) ==
    IF \E pr \in pairs : pr[1] = key THEN (CHOOSE pr \in pairs : pr[1] = key)[2] ELSE 0

\* An item loop that takes a missing anchor for the start of the node
SubmitItemWithoutAnchorCheck(cx, t, node, tail_elements, item) ==
    LET raw == node.raw_element
        anchor_element == _find_anchor_in_parent(t, raw, item[2].raw_element)
        tail_element == DictGet(tail_elements, anchor_element)
        InsertPreserved(t2, preserved_elements) ==
            SetKids(t2, raw,
                    InsertAll(t2[raw].kids, index_of_parent(t2, raw, anchor_element),
                              preserved_elements))
        Removed(rm) ==
            InsertPreserved(
              _append_combined_after_tail(cx, rm.t, raw, item[1], tail_element,
                                          anchor_element, FALSE),
              rm.preserved)
    IN IF anchor_element = 0
       THEN _append_combined_after_tail(cx, t, raw, item[1], 0, 0, FALSE)
       ELSE Removed(IF cx.act = "REPLACE"
                    THEN _remove_elements_after_tail(
                           t, raw, tail_element,
                           index_of_parent(t, raw, anchor_element))
                    ELSE [t |-> t, preserved |-> <<>>])

\* The second loop of _submit_by_text: one item
SubmitItem(cx, t, node, tail_elements, item) ==
    LET raw == node.raw_element
        anchor_element == _find_anchor_in_parent(t, raw, item[2].raw_element)
        tail_element == DictGet(tail_elements, anchor_element)
        \* "for elem in preserved_elements:"
        InsertPreserved(t2, preserved_elements) ==
            SetKids(t2, raw,
                    InsertAll(t2[raw].kids, index_of_parent(t2, raw, anchor_element),
                              preserved_elements))
        Removed(rm) ==
            InsertPreserved(
              _append_combined_after_tail(cx, rm.t, raw, item[1], tail_element,
                                          anchor_element, FALSE),
              rm.preserved)
    IN IF anchor_element = 0 THEN t
       ELSE Removed(IF cx.act = "REPLACE"
                    THEN _remove_elements_after_tail(
                           t, raw, tail_element,
                           index_of_parent(t, raw, anchor_element))
                    ELSE [t |-> t, preserved |-> <<>>])

RECURSIVE SubmitItems(_, _, _, _, _)
SubmitItems(cx, t, node, tail_elements, items) ==
    IF items = <<>> THEN t
    ELSE SubmitItems(cx, SubmitItem(cx, t, node, tail_elements, Head(items)),
                     node, tail_elements, Tail(items))

\* A dispatch that submits every node as one block
SubmitNodeAlwaysByBlock(cx, t, node) == _submit_by_block(cx, t, node)

RECURSIVE _submit_node(_, _, _)
RECURSIVE SubmitChildren(_, _, _, _)
\* The third loop of _submit_by_text: r = [t, ret] so far
SubmitChildren(cx, r, items, i) ==
    LET Submitted(sub) ==
            SubmitChildren(cx,
                           [t |-> sub.t, ret |-> IF r.ret = 0 THEN sub.ret ELSE r.ret],
                           items, i + 1)
    IN IF i > Len(items) THEN r
       ELSE Submitted(_submit_node(cx, r.t, items[i][2]))

\* _Submitter._submit_by_text: gives [t, ret]
_submit_by_text(cx, t, node) ==
    LET raw == node.raw_element
        child_nodes == {NodeKey(node.items[i][2]) : i \in 1..Len(node.items)}
        tail_elements == TailElementsLoop(child_nodes, t[raw].kids, 0, {})
        \* "for elem in preserved_elements: node.raw_element.append(elem)"
        AppendPreserved(t3, preserved_elements, ret) ==
            [t |-> SetKids(t3, raw, t3[raw].kids \o preserved_elements), ret |-> ret]
        Removed(rm, last_tail_element, ret) ==
            AppendPreserved(
              _append_combined_after_tail(cx, rm.t, raw, node.tail_text_segments,
                                          last_tail_element, 0, TRUE),
              rm.preserved, ret)
        \* "if node.raw_element: last_tail_element = node.raw_element[-1]"
        TailOf(t2, last_tail_element, ret) ==
            Removed(IF cx.act = "REPLACE"
                    THEN _remove_elements_after_tail(t2, raw, last_tail_element, -1)
                    ELSE [t |-> t2, preserved |-> <<>>],
                    last_tail_element, ret)
        Children(r) ==
            TailOf(r.t,
                   IF r.t[raw].kids # <<>> THEN r.t[raw].kids[Len(r.t[raw].kids)] ELSE 0,
                   r.ret)
    IN Children(SubmitChildren(
                  cx, [t |-> SubmitItems(cx, t, node, tail_elements, node.items),
                       ret |-> 0],
                  node.items, 1))

_submit_node(cx, t, node) ==
    IF node.items # <<>> \/ cx.act = "APPEND_TEXT"
    THEN _submit_by_text(cx, t, node)
    ELSE _submit_by_block(cx, t, node)

(***************************************************************************)
(* The documents and mappings submit is run on.  A shape is an element     *)
(* tree, its root, and the block elements that carry text, in document     *)
(* order (a block whose text is cut by a nested block comes again after    *)
(* it).  The original text of element e is the atom <<0, 2e>>, its tail    *)
(* <<0, 2e + 1>>.                                                          *)
(***************************************************************************)
OText(e) == Some(<< <<0, 2 * e>> >>)

OTail(e) == Some(<< <<0, 2 * e + 1>> >>)

Shapes ==
    << \* <body><p>x<em>x</em>x<img/>x<img/></p>x<p>x</p></body>
       [root |-> 1, cands |-> <<2, 6>>,
        tree |-> << Elem("body", None, None, <<2, 6>>),
                    Elem("p", OText(2), OTail(2), <<3, 4, 5>>),
                    Elem("em", OText(3), OTail(3), <<>>),
                    Elem("img", None, OTail(4), <<>>),
                    Elem("img", None, None, <<>>),
                    Elem("p", OText(6), None, <<>>) >>],
       \* <body><div>x<p>x</p>x<em>x</em>x</div>x</body>
       [root |-> 1, cands |-> <<2, 3, 2>>,
        tree |-> << Elem("body", None, None, <<2>>),
                    Elem("div", OText(2), OTail(2), <<3, 4>>),
                    Elem("p", OText(3), OTail(3), <<>>),
                    Elem("em", OText(4), OTail(4), <<>>) >>],
       \* <body><div>x<em>x</em>x<p>x</p>x<img/>x<p>x<img/></p>x</div></body>
       [root |-> 1, cands |-> <<2, 4, 2, 6, 2>>,
        tree |-> << Elem("body", None, None, <<2>>),
                    Elem("div", OText(2), None, <<3, 4, 5, 6>>),
                    Elem("em", OText(3), OTail(3), <<>>),
                    Elem("p", OText(4), OTail(4), <<>>),
                    Elem("img", None, OTail(5), <<>>),
                    Elem("p", OText(6), OTail(6), <<7>>),
                    Elem("img", None, None, <<>>) >>],
       \* <body><div>x<section><p>x</p></section>x</div></body>
       [root |-> 1, cands |-> <<2, 4, 2>>,
        tree |-> << Elem("body", None, None, <<2>>),
                    Elem("div", OText(2), None, <<3>>),
                    Elem("section", None, OTail(3), <<4>>),
                    Elem("p", OText(4), None, <<>>) >>],
       \* <p>x<em>x</em>x</p>, the root itself a mapped block
       [root |-> 1, cands |-> <<1>>,
        tree |-> << Elem("p", OText(1), None, <<2>>),
                    Elem("em", OText(2), OTail(2), <<>>) >>],
       \* <body><div><p>x</p>x</div>x</body>: no text before the nested block
       [root |-> 1, cands |-> <<3, 2>>,
        tree |-> << Elem("body", None, None, <<2>>),
                    Elem("div", None, OTail(2), <<3>>),
                    Elem("p", OText(3), OTail(3), <<>>) >>],
       \* <body><span>x <p>x</p>x </span>x</body>: the mapped block is an inline
       \* element, its text and its child's tail end in a space
       [root |-> 1, cands |-> <<2, 3, 2>>,
        tree |-> << Elem("body", None, None, <<2>>),
                    Elem("span", Some(<< <<0, 4>>, Space >>), OTail(2), <<3>>),
                    Elem("p", OText(3), Some(<< <<0, 7>>, Space >>), <<>>) >>],
       \* <body><p>x</p>x<span>x </span></body>: an inline block after a block
       [root |-> 1, cands |-> <<2, 3>>,
        tree |-> << Elem("body", None, None, <<2, 3>>),
                    Elem("p", OText(2), OTail(2), <<>>),
                    Elem("span", Some(<< <<0, 6>>, Space >>), None, <<>>) >>],
       \* <body><div><p>x<span>x</span>x</p>x</div>x</body>, the paragraph mapped
       \* before the div around it and the span inside it after the div
       [root |-> 1, cands |-> <<3, 2, 4>>,
        tree |-> << Elem("body", None, None, <<2>>),
                    Elem("div", None, OTail(2), <<3>>),
                    Elem("p", OText(3), OTail(3), <<4>>),
                    Elem("span", OText(4), OTail(4), <<>>) >>]
    >>

MaxSegs == 2

\* The translated segments of the k-th block occurrence: j segments, with and
\* without an inline wrapper in turn
SegsFor(k, j) == [i \in 1..j |-> TextSeg(<< <<k, i>> >>, (i + k) % 2 = 1)]

\* The mappings for a choice per block occurrence: -1 leaves it out
RECURSIVE MappingsFrom(_, _, _)
MappingsFrom(cands, choice, k) ==
    IF k > Len(cands) THEN <<>>
    ELSE (IF choice[k] >= 0
          THEN << [el |-> cands[k], segs |-> SegsFor(k, choice[k])] >>
          ELSE <<>>)
         \o MappingsFrom(cands, choice, k + 1)

MappingsOf(cands, choice) == MappingsFrom(cands, choice, 1)

SubmitKind == {"REPLACE", "APPEND_TEXT", "APPEND_BLOCK"}

\* submit() has built its _Submitter: self._nodes and self._parents are there
SubmitInit ==
    /\ uPc = "ready"
    /\ \E sh \in 1..Len(Shapes) :
         \E choice \in Tuples(Len(Shapes[sh].cands), (-1)..MaxSegs) :
            /\ uTree = Shapes[sh].tree
            /\ uRoot = Shapes[sh].root
            /\ uMaps = MappingsOf(Shapes[sh].cands, choice)
    /\ uAct \in SubmitKind
    /\ uNodes = _nest_nodes(uTree, uMaps)
    /\ uNi = 1
    /\ uPre = uTree
    /\ uOrig = uTree
    /\ uRet = 0
    /\ sPc = "idle" /\ sTree = 0 /\ sSegs = <<>> /\ sCall = NoCall /\ sDepth = 0
    /\ cPc = "idle" /\ cSegs = <<>> /\ cMax = 0 /\ cChunks = <<>> /\ cOut = <<>>
    /\ cCalls = 0
    /\ nPc = "idle" /\ nTree = <<>> /\ nMaps = <<>> /\ nI = 0
    /\ nSt = [stack |-> <<>>, out |-> <<>>] /\ nCreated = 0 /\ nPopped = 0
    /\ vPc = "idle" /\ vSeg = 0 /\ vEl = <<>> /\ vEdits = 0 /\ vErrors = <<>>
    /\ mPc = "idle" /\ mEl = <<>> /\ mWraps = 0 /\ mRes = <<>>

Context == [act |-> uAct, par |-> _collect_parents(uOrig, uRoot)]

\* One turn of the loop of _Submitter.do
DoStep ==
    /\ uPc = "ready"
    /\ uNi <= Len(uNodes)
    /\ \E submitted \in {_submit_node(Context, uTree, uNodes[uNi])} :
          /\ uTree' = submitted.t
          /\ uRet' = IF uRet = 0 THEN submitted.ret ELSE uRet
    /\ uPre' = uTree
    /\ uNi' = uNi + 1
    /\ UNCHANGED <<uPc, uRoot, uAct, uMaps, uNodes, uOrig, scoreVars, chunkVars, nestVars, valVars, mathVars>>

\* do() is through: submit returns replaced_root, or element when it is None
SubmitReturn ==
    /\ uPc = "ready"
    /\ uNi > Len(uNodes)
    /\ uPc' = "done"
    /\ UNCHANGED <<uTree, uRoot, uAct, uMaps, uNodes, uNi, uPre, uOrig, uRet,
                   scoreVars, chunkVars, nestVars, valVars, mathVars>>

SubmitNext == DoStep \/ SubmitReturn

SpecSubmit == SubmitInit /\ [][SubmitNext]_vars

(***************************************************************************)
(* _nest_nodes taken one mapping at a time: the generator's loop over the  *)
(* mappings, then the "while stack" that folds what is left.               *)
(***************************************************************************)
\* The documents of Shapes and one with blocks nested three deep
NestShapes ==
    Shapes
    \o << \* <body><div>x<section>x<p>x</p></section>x<p>x</p></div><p>x</p></body>
          [root |-> 1, cands |-> <<2, 3, 4, 2, 5, 6>>,
           tree |-> << Elem("body", None, None, <<2, 6>>),
                       Elem("div", OText(2), None, <<3, 5>>),
                       Elem("section", OText(3), OTail(3), <<4>>),
                       Elem("p", OText(4), None, <<>>),
                       Elem("p", OText(5), None, <<>>),
                       Elem("p", OText(6), None, <<>>) >>] >>

NestInit ==
    /\ nPc = "loop"
    /\ \E sh \in 1..Len(NestShapes) :
         \E choice \in Tuples(Len(NestShapes[sh].cands), (-1)..MaxSegs) :
            /\ nTree = NestShapes[sh].tree
            /\ nMaps = MappingsOf(NestShapes[sh].cands, choice)
    /\ nI = 1
    /\ nSt = [stack |-> <<>>, out |-> <<>>]
    /\ nCreated = 0
    /\ nPopped = 0
    /\ sPc = "idle" /\ sTree = 0 /\ sSegs = <<>> /\ sCall = NoCall /\ sDepth = 0
    /\ cPc = "idle" /\ cSegs = <<>> /\ cMax = 0 /\ cChunks = <<>> /\ cOut = <<>>
    /\ cCalls = 0
    /\ uPc = "idle" /\ uTree = <<>> /\ uRoot = 0 /\ uAct = "REPLACE" /\ uMaps = <<>>
    /\ uNodes = <<>> /\ uNi = 0 /\ uPre = <<>> /\ uOrig = <<>> /\ uRet = 0
    /\ vPc = "idle" /\ vSeg = 0 /\ vEl = <<>> /\ vEdits = 0 /\ vErrors = <<>>
    /\ mPc = "idle" /\ mEl = <<>> /\ mWraps = 0 /\ mRes = <<>>

\* One turn of "for block_element, text_segments in mappings"
NestMapping ==
    /\ nPc = "loop"
    /\ nI <= Len(nMaps)
    /\ \E pushed \in {IF Upwards(nSt, nMaps[nI]) THEN 0 ELSE 1},
          st \in {NestStep(nTree, nSt, nMaps[nI])} :
          /\ nSt' = st
          /\ nCreated' = nCreated + pushed
          /\ nPopped' = nPopped + Len(nSt.stack) + pushed - Len(st.stack)
    /\ nI' = nI + 1
    /\ UNCHANGED <<nPc, nTree, nMaps, scoreVars, chunkVars, subVars, valVars, mathVars>>

\* The mappings are through: "while stack" folds and yields what is left
NestFinish ==
    /\ nPc = "loop"
    /\ nI > Len(nMaps)
    /\ nSt' = FoldTo(nSt, 0, TRUE)
    /\ nPopped' = nPopped + Len(nSt.stack)
    /\ nPc' = "done"
    /\ UNCHANGED <<nTree, nMaps, nI, nCreated, scoreVars, chunkVars, subVars, valVars, mathVars>>

NestNext == NestMapping \/ NestFinish

SpecNest == NestInit /\ [][NestNext]_vars

(***************************************************************************)
(* InlineSegment.create_element and InlineSegment.validate                 *)
(* (segment/inline_segment.py).  An element is a record of its tag, its    *)
(* identifier attribute (0 for none), its text, its tail and its children; *)
(* no other attribute is carried, as create_element copies none.           *)
(***************************************************************************)
VElem(tag, id, text, tail, kids) ==
    [tag |-> tag, id |-> id, text |-> text, tail |-> tail, kids |-> kids]

\* The inline trees of the score engine, the segment of
\* <p>X<em>A</em>Y<em>B</em>Z</p>, and one with identified siblings below an
\* inline child
ValTrees ==
    InlineTrees
    \o << << INode("p", 0, <<2, 3, 5, 6, 8>>), TNode(<<"a">>),
             INode("em", 0, <<4>>), TNode(<<"b">>), TNode(<<"a">>),
             INode("em", 0, <<7>>), TNode(<<"b">>), TNode(<<"a">>) >>,
          \* <p>a<span><em id=1>a</em><em id=2>b</em></span><em>b</em></p>
          << INode("p", 0, <<2, 3, 8>>), TNode(<<"a">>),
             INode("span", 0, <<4, 6>>),
             INode("em", 1, <<5>>), TNode(<<"a">>),
             INode("em", 2, <<7>>), TNode(<<"b">>),
             INode("em", 0, <<9>>), TNode(<<"b">>) >> >>

\* The children of a segment that are InlineSegments
RECURSIVE InlineOnly(_, _)
InlineOnly(tree, cs) ==
    IF cs = <<>> THEN <<>>
    ELSE (IF tree[Head(cs)].kind = "inline" THEN <<Head(cs)>> ELSE <<>>)
         \o InlineOnly(tree, Tail(cs))

\* Text goes to the element's text before its first child element, and to
\* the tail of the last child element after it
AddText(acc, text) ==
    IF acc.kids = <<>> THEN [acc EXCEPT !.text = @ \o text]
    ELSE [acc EXCEPT !.kids[Len(acc.kids)].tail = @ \o text]

\* create_element: the skeleton of the segment (tags, nesting, assigned ids)
\* with the original text in place
RECURSIVE create_element(_, _)
RECURSIVE CreateChildren(_, _, _)
CreateChildren(tree, cs, acc) ==
    IF cs = <<>> THEN acc
    ELSE CreateChildren(tree, Tail(cs),
            IF tree[Head(cs)].kind = "inline"
            THEN [acc EXCEPT !.kids = Append(@, create_element(tree, Head(cs)))]
            ELSE AddText(acc, tree[Head(cs)].text))

CreateElementWithoutIds(tree, n) ==
    CreateChildren([i \in 1..Len(tree) |-> [tree[i] EXCEPT !.id = 0]],
                   tree[n].children, VElem(tree[n].tag, 0, <<>>, <<>>, <<>>))

create_element(tree, n) ==
    CreateChildren(tree, tree[n].children,
                   VElem(tree[n].tag, tree[n].id, <<>>, <<>>, <<>>))

\* The elements of an element's subtree, itself first, in document order
RECURSIVE ElemsOf(_)
ElemsOf(e) == <<e>> \o Flatten([i \in 1..Len(e.kids) |-> ElemsOf(e.kids[i])])

\* The ids the segment assigned to its inline segments
AssignedIds(tree) == {tree[i].id : i \in 1..Len(tree)} \ {0}

VError(kind, what) == [kind |-> kind, what |-> what]

\* An element carrying an id the segment did not assign, or one already
\* met on an earlier element, is unexpected
RECURSIVE IdScan(_, _)
IdScan(remain, elems) ==
    IF elems = <<>> THEN <<>>
    ELSE IF Head(elems).id = 0 THEN IdScan(remain, Tail(elems))
    ELSE IF Head(elems).id \in remain
         THEN IdScan(remain \ {Head(elems).id}, Tail(elems))
    ELSE <<VError("UnexpectedId", Head(elems).id)>> \o IdScan(remain, Tail(elems))

RECURSIVE Dedup(_)
Dedup(s) ==
    IF s = <<>> THEN <<>>
    ELSE LET rest == Dedup(SubSeq(s, 1, Len(s) - 1))
         IN IF s[Len(s)] \in Range(rest) THEN rest ELSE Append(rest, s[Len(s)])

CountOf(s, x) == Cardinality({i \in 1..Len(s) : s[i] = x})

\* _match_children: for the i-th inline child of the segment the index of
\* its element among the element's children, 0 when there is none.  A child
\* with an id is matched by id and must meet exactly one candidate; a child
\* without one is matched by position among the children of its tag that
\* have no id.
MatchOf(tree, cs, kids, i) ==
    LET c == tree[cs[i]]
    IN IF c.id # 0
       THEN LET cand == {j \in 1..Len(kids) : kids[j].id = c.id /\ kids[j].tag = c.tag}
            IN IF Cardinality(cand) = 1 THEN CHOOSE j \in cand : TRUE ELSE 0
       ELSE LET pos == Cardinality({h \in 1..i : tree[cs[h]].tag = c.tag
                                                   /\ tree[cs[h]].id = 0})
                free == {j \in 1..Len(kids) : kids[j].tag = c.tag /\ kids[j].id = 0}
                at == {j \in free : Cardinality({h \in free : h <= j}) = pos}
            IN IF at = {} THEN 0 ELSE CHOOSE j \in at : TRUE

_match_children(tree, n, e) ==
    LET Matches(cs) == [i \in 1..Len(cs) |-> <<cs[i], MatchOf(tree, cs, e.kids, i)>>]
    IN Matches(InlineOnly(tree, tree[n].children))

\* The tags whose number of children differs between segment and element
TagCountErrors(ctags, ktags) ==
    LET Errors(tags) ==
            Flatten([i \in 1..Len(tags) |->
                       IF CountOf(ctags, tags[i]) # CountOf(ktags, tags[i])
                       THEN <<VError("WrongTagCount", tags[i])>> ELSE <<>>])
    IN Errors(Dedup(ctags \o ktags))

\* A child element carrying an id of the segment that the segment assigned
\* to none of its children of that tag at this nesting point is unexpected
MisplacedIds(tree, cs, kids) ==
    Flatten([j \in 1..Len(kids) |->
               IF /\ kids[j].id \in AssignedIds(tree)
                  /\ \A i \in 1..Len(cs) :
                        tree[cs[i]].id # kids[j].id \/ tree[cs[i]].tag # kids[j].tag
               THEN <<VError("UnexpectedId", kids[j].id)>> ELSE <<>>])

\* The structure errors at one nesting point, then those of the matched
\* children; an id that does not resolve to one child fails the validation
RECURSIVE _validate_children_structure(_, _, _)
_validate_children_structure(tree, n, e) ==
    LET OfMatched(ms) ==
            Flatten([i \in 1..Len(ms) |->
                       IF ms[i][2] = 0
                       THEN (IF tree[ms[i][1]].id # 0
                             THEN <<VError("UnresolvedId", tree[ms[i][1]].id)>>
                             ELSE <<>>)
                       ELSE _validate_children_structure(tree, ms[i][1], e.kids[ms[i][2]])])
        AtPoint(cs) == TagCountErrors([i \in 1..Len(cs) |-> tree[cs[i]].tag],
                                 [i \in 1..Len(e.kids) |-> e.kids[i].tag])
                       \o MisplacedIds(tree, cs, e.kids)
    IN AtPoint(InlineOnly(tree, tree[n].children)) \o OfMatched(_match_children(tree, n, e))

ValidateStructureOnly(tree, e) == _validate_children_structure(tree, 1, e)

\* validate: the errors of the transformed element against the segment
validate(tree, e) ==
    IdScan(AssignedIds(tree), ElemsOf(e)) \o _validate_children_structure(tree, 1, e)

\* The changes a transformation can make to the markup at one element
MaxEdits == 2

VIds == {0, 1, 2, 9}

VTags == {"em", "span"}

Translated == <<"t">>

LocalEdits(e) ==
    {[e EXCEPT !.id = d] : d \in VIds \ {e.id}}
    \cup {[e EXCEPT !.text = Translated]}
    \cup {[e EXCEPT !.tail = Translated]}
    \cup {[e EXCEPT !.kids = SubSeq(@, 1, i - 1) \o SubSeq(@, i + 1, Len(@))] :
             i \in 1..Len(e.kids)}
    \cup {[e EXCEPT !.kids = SubSeq(@, 1, i) \o SubSeq(@, i, Len(@))] :
             i \in 1..Len(e.kids)}
    \cup {[e EXCEPT !.kids[i].tag = t] :
             i \in 1..Len(e.kids), t \in VTags}
    \cup {[e EXCEPT !.kids = SubSeq(@, 1, i - 1) \o <<@[i + 1], @[i]>>
                              \o SubSeq(@, i + 2, Len(@))] :
             i \in 1..(Len(e.kids) - 1)}

RECURSIVE Edits(_)
Edits(e) ==
    LocalEdits(e)
    \cup UNION {{[e EXCEPT !.kids[i] = k] : k \in Edits(e.kids[i])} :
                  i \in 1..Len(e.kids)}

ValInit ==
    /\ vPc = "init"
    /\ vSeg \in 1..Len(ValTrees)
    /\ vEl = <<>>
    /\ vEdits = 0
    /\ vErrors = <<>>
    /\ sPc = "idle" /\ sTree = 0 /\ sSegs = <<>> /\ sCall = NoCall /\ sDepth = 0
    /\ cPc = "idle" /\ cSegs = <<>> /\ cMax = 0 /\ cChunks = <<>> /\ cOut = <<>>
    /\ cCalls = 0
    /\ uPc = "idle" /\ uTree = <<>> /\ uRoot = 0 /\ uAct = "REPLACE" /\ uMaps = <<>>
    /\ uNodes = <<>> /\ uNi = 0 /\ uPre = <<>> /\ uOrig = <<>> /\ uRet = 0
    /\ nPc = "idle" /\ nTree = <<>> /\ nMaps = <<>> /\ nI = 0
    /\ nSt = [stack |-> <<>>, out |-> <<>>] /\ nCreated = 0 /\ nPopped = 0
    /\ mPc = "idle" /\ mEl = <<>> /\ mWraps = 0 /\ mRes = <<>>

\* create_element(): the fragment sent out for transformation
CreateElement ==
    /\ vPc = "init"
    /\ vEl' = <<create_element(ValTrees[vSeg], 1)>>
    /\ vPc' = "built"
    /\ UNCHANGED <<vSeg, vEdits, vErrors, scoreVars, chunkVars, subVars, nestVars, mathVars>>

\* The transformation changes the markup
Transform ==
    /\ vPc = "built"
    /\ vEdits < MaxEdits
    /\ \E e \in Edits(vEl[1]) : vEl' = <<e>>
    /\ vEdits' = vEdits + 1
    /\ UNCHANGED <<vPc, vSeg, vErrors, scoreVars, chunkVars, subVars, nestVars, mathVars>>

\* validate(transformed_root)
Validate ==
    /\ vPc = "built"
    /\ vErrors' = validate(ValTrees[vSeg], vEl[1])
    /\ vPc' = "validated"
    /\ UNCHANGED <<vSeg, vEl, vEdits, scoreVars, chunkVars, subVars, nestVars, mathVars>>

ValNext == CreateElement \/ Transform \/ Validate

SpecValidate == ValInit /\ [][ValNext]_vars

(***************************************************************************)
(* xml_to_latex (epub/math.py).  A MathML element is a record of its tag,  *)
(* its text (empty for None) and its children; text and LaTeX are          *)
(* sequences of characters, a LaTeX command being one character.  A call    *)
(* gives a string or raises.                                               *)
(***************************************************************************)
MEl(tag, text, kids) == [tag |-> tag, text |-> text, kids |-> kids]

Returns(str) == [ok |-> TRUE, str |-> str]

Raises == [ok |-> FALSE, str |-> <<>>]

\* "".join of the parts, unless computing one of them raised
Joined(parts) ==
    IF \A i \in 1..Len(parts) : parts[i].ok
    THEN Returns(Flatten([i \in 1..Len(parts) |-> parts[i].str]))
    ELSE Raises

\* parts joined with a separator between them
RECURSIVE JoinedWith(_, _)
JoinedWith(sep, strs) ==
    IF strs = <<>> THEN <<>>
    ELSE IF Len(strs) = 1 THEN strs[1]
    ELSE strs[1] \o sep \o JoinedWith(sep, Tail(strs))

\* _OPERATOR_MAP: "->" stands for the arrow, "sum" for the summation sign
_OPERATOR_MAP(text) ==
    IF text = <<"->">> THEN <<"\\rightarrow">>
    ELSE IF text = <<"sum">> THEN <<"\\sum">>
    ELSE text

\* str.strip()
RECURSIVE StripLeft(_)
StripLeft(str) ==
    IF str # <<>> /\ Head(str) = " " THEN StripLeft(Tail(str)) ELSE str

RECURSIVE StripRight(_)
StripRight(str) ==
    IF str # <<>> /\ str[Len(str)] = " " THEN StripRight(SubSeq(str, 1, Len(str) - 1))
    ELSE str

Strip(str) == StripLeft(StripRight(str))

\* str(n) for the column count
Digits == <<"0", "1", "2", "3", "4", "5", "6", "7", "8", "9">>

RECURSIVE IntStr(_)
IntStr(n) == IF n < 10 THEN <<Digits[n + 1]>> ELSE IntStr(n \div 10) \o <<Digits[(n % 10) + 1]>>

\* The children whose tag ends with the given tag
RECURSIVE ChildrenOfTag(_, _)
ChildrenOfTag(kids, tag) ==
    IF kids = <<>> THEN <<>>
    ELSE (IF Head(kids).tag = tag THEN <<Head(kids)>> ELSE <<>>)
         \o ChildrenOfTag(Tail(kids), tag)

\* The mtable branch: rows[0] of an empty list raises IndexError
TableOf(rows) ==
    IF \E i \in 1..Len(rows) : ~rows[i].ok THEN Raises
    ELSE IF rows = <<>> THEN Raises
    ELSE Returns(<<"\\begin{array}{">>
                 \o IntStr(Cardinality({k \in 1..Len(rows[1].str) : rows[1].str[k] = "&"}) + 1)
                 \o <<"}", "\n">>
                 \o JoinedWith(<<"\\\\", "\n">>, [i \in 1..Len(rows) |-> rows[i].str])
                 \o <<"\n", "\\end{array}">>)

\* The mtr branch
RowOf(cells) ==
    IF \E i \in 1..Len(cells) : ~cells[i].ok THEN Raises
    ELSE Returns(JoinedWith(<<" ", "&", " ">>, [i \in 1..Len(cells) |-> cells[i].str]))

\* The munderover branch
UnderOverOf(base, under, over) ==
    IF ~base.ok THEN Raises
    ELSE IF Strip(base.str) \in {<<"\\sum">>, <<"\\int">>, <<"\\prod">>}
    THEN Joined(<<base, Returns(<<"_", "{">>), under, Returns(<<"}", "^", "{">>), over,
                  Returns(<<"}">>)>>)
    ELSE Joined(<<Returns(<<"\\overset", "{">>), over,
                  Returns(<<"}", "{", "\\underset", "{">>), under,
                  Returns(<<"}", "{">>), base, Returns(<<"}", "}">>)>>)

RECURSIVE xml_to_latex(_)
\* The join over all children
OfChildren(element) ==
    Joined([i \in 1..Len(element.kids) |-> xml_to_latex(element.kids[i])])

xml_to_latex(element) ==
    LET tag == element.tag
        children == element.kids
        Of(i) == xml_to_latex(children[i])
    IN
    IF tag \in {"math", "mrow"} THEN OfChildren(element)
    ELSE IF tag = "mi" THEN
        IF Len(element.text) > 1
        THEN Returns(<<"\\mathrm", "{">> \o element.text \o <<"}">>)
        ELSE Returns(element.text)
    ELSE IF tag = "mn" THEN Returns(element.text)
    ELSE IF tag = "mo" THEN Returns(_OPERATOR_MAP(Strip(element.text)))
    ELSE IF tag = "mfrac" THEN
        IF Len(children) >= 2
        THEN Joined(<<Returns(<<"\\frac", "{">>), Of(1), Returns(<<"}", "{">>), Of(2),
                      Returns(<<"}">>)>>)
        ELSE Returns(<<>>)
    ELSE IF tag = "msub" THEN
        IF Len(children) >= 2
        THEN Joined(<<Of(1), Returns(<<"_", "{">>), Of(2), Returns(<<"}">>)>>)
        ELSE Returns(<<>>)
    ELSE IF tag = "msup" THEN
        IF Len(children) >= 2
        THEN Joined(<<Of(1), Returns(<<"^", "{">>), Of(2), Returns(<<"}">>)>>)
        ELSE Returns(<<>>)
    ELSE IF tag = "msubsup" THEN
        IF Len(children) >= 3
        THEN Joined(<<Of(1), Returns(<<"_", "{">>), Of(2), Returns(<<"}", "^", "{">>),
                      Of(3), Returns(<<"}">>)>>)
        ELSE Returns(<<>>)
    ELSE IF tag = "msqrt" THEN
        Joined(<<Returns(<<"\\sqrt", "{">>), OfChildren(element), Returns(<<"}">>)>>)
    ELSE IF tag = "mroot" THEN
        IF Len(children) >= 2
        THEN Joined(<<Returns(<<"\\sqrt", "[">>), Of(2), Returns(<<"]", "{">>), Of(1),
                      Returns(<<"}">>)>>)
        ELSE Returns(<<>>)
    ELSE IF tag = "munder" THEN
        IF Len(children) >= 2
        THEN Joined(<<Returns(<<"\\underset", "{">>), Of(2), Returns(<<"}", "{">>), Of(1),
                      Returns(<<"}">>)>>)
        ELSE Returns(<<>>)
    ELSE IF tag = "mover" THEN
        IF Len(children) >= 2
        THEN Joined(<<Returns(<<"\\overset", "{">>), Of(2), Returns(<<"}", "{">>), Of(1),
                      Returns(<<"}">>)>>)
        ELSE Returns(<<>>)
    ELSE IF tag = "munderover" THEN
        IF Len(children) >= 3 THEN UnderOverOf(Of(1), Of(2), Of(3)) ELSE Returns(<<>>)
    ELSE IF tag = "mtext" THEN Returns(<<"\\text", "{">> \o element.text \o <<"}">>)
    ELSE IF tag = "mspace" THEN Returns(<<"\\,">>)
    ELSE IF tag = "mtable" THEN
        TableOf([i \in 1..Len(ChildrenOfTag(children, "mtr")) |->
                   xml_to_latex(ChildrenOfTag(children, "mtr")[i])])
    ELSE IF tag = "mtr" THEN
        RowOf([i \in 1..Len(ChildrenOfTag(children, "mtd")) |->
                 xml_to_latex(ChildrenOfTag(children, "mtd")[i])])
    ELSE OfChildren(element)

\* The tags the function knows, and one it does not
MathTags ==
    {"math", "mrow", "mfrac", "msub", "msup", "msubsup", "msqrt", "mroot", "munder",
     "mover", "munderover", "mtable", "mtr", "mtd", "semantics"}

\* The elements a tree is built from
MathSeeds ==
    { MEl("mi", <<"x">>, <<>>),
      MEl("mi", <<"x", "y">>, <<>>),
      MEl("mn", <<>>, <<>>),
      MEl("mo", <<" ", "sum">>, <<>>),
      MEl("mo", <<"->">>, <<>>),
      MEl("mtext", <<"x", "&", "y">>, <<>>),
      MEl("mspace", <<>>, <<>>),
      MEl("mtd", <<>>, <<MEl("mn", <<"1">>, <<>>)>>),
      MEl("mtr", <<>>, <<MEl("mtd", <<>>, <<MEl("mn", <<"1">>, <<>>)>>),
                         MEl("mtd", <<>>, <<MEl("mi", <<"x">>, <<>>)>>)>>),
      MEl("mtable", <<>>, <<>>) }

MathSibling == MEl("mn", <<"2">>, <<>>)

MaxWraps == 2

MathInit ==
    /\ mPc = "built"
    /\ mEl \in {<<e>> : e \in MathSeeds}
    /\ mWraps = 0
    /\ mRes = <<>>
    /\ sPc = "idle" /\ sTree = 0 /\ sSegs = <<>> /\ sCall = NoCall /\ sDepth = 0
    /\ cPc = "idle" /\ cSegs = <<>> /\ cMax = 0 /\ cChunks = <<>> /\ cOut = <<>>
    /\ cCalls = 0
    /\ uPc = "idle" /\ uTree = <<>> /\ uRoot = 0 /\ uAct = "REPLACE" /\ uMaps = <<>>
    /\ uNodes = <<>> /\ uNi = 0 /\ uPre = <<>> /\ uOrig = <<>> /\ uRet = 0
    /\ nPc = "idle" /\ nTree = <<>> /\ nMaps = <<>> /\ nI = 0
    /\ nSt = [stack |-> <<>>, out |-> <<>>] /\ nCreated = 0 /\ nPopped = 0
    /\ vPc = "idle" /\ vSeg = 0 /\ vEl = <<>> /\ vEdits = 0 /\ vErrors = <<>>

\* The element becomes the first child of a new parent, with up to two
\* further children after it
MathWrap ==
    /\ mPc = "built"
    /\ mWraps < MaxWraps
    /\ \E tag \in MathTags, more \in 0..2 :
          mEl' = <<MEl(tag, <<>>, mEl \o [i \in 1..more |-> MathSibling])>>
    /\ mWraps' = mWraps + 1
    /\ UNCHANGED <<mPc, mRes, scoreVars, chunkVars, subVars, nestVars, valVars>>

\* xml_to_latex(element)
MathConvert ==
    /\ mPc = "built"
    /\ mRes' = <<xml_to_latex(mEl[1])>>
    /\ mPc' = "done"
    /\ UNCHANGED <<mEl, mWraps, scoreVars, chunkVars, subVars, nestVars, valVars>>

MathNext == MathWrap \/ MathConvert

SpecMath == MathInit /\ [][MathNext]_vars

(***************************************************************************)
(* Properties of the score engine.                                         *)
(***************************************************************************)

\* C1 (truncation budget): a truncation with remain_score >= fixed_score + 1
\* returns, if anything, a segment with score <= remain_score; with
\* remain_score <= fixed_score it returns None.
C1_TruncationBudget ==
    sPc = "called" =>
        LET seg == sCall.seg[1]
        IN /\ (sCall.remain_score >= fixed_score(seg) + 1 /\ sCall.res # <<>>)
                => sCall.res[1].score <= sCall.remain_score
           /\ sCall.remain_score <= fixed_score(seg) => sCall.res = <<>>

\* C1 witness: a call that really cut tokens off and returned a segment
C1_Witness ==
    /\ sPc = "called"
    /\ sCall.res # <<>>
    /\ sCall.remain_score >= fixed_score(sCall.seg[1]) + 1
    /\ sCall.remain_score - fixed_score(sCall.seg[1]) < Len(sCall.seg[1].text_tokens)

\* C2 as stated: every ScoreSegment handed out, by the expansion or by a
\* truncation, has score >= len(text_tokens).
C2_ScoreCoversTokens ==
    /\ \A i \in 1..Len(sSegs) : sSegs[i].score >= Len(sSegs[i].text_tokens)
    /\ sCall.res # <<>> => sCall.res[1].score >= Len(sCall.res[1].text_tokens)

\* The part of C2 about expand_to_score_segments alone
C2_ExpandedScoreCoversTokens ==
    \A i \in 1..Len(sSegs) : sSegs[i].score >= Len(sSegs[i].text_tokens)

(***************************************************************************)
(* Properties of the chunk / split engine.                                 *)
(***************************************************************************)
Bodies(chunks) == Flatten([k \in 1..Len(chunks) |-> chunks[k].body])

\* C3 (chunk coverage): the bodies of the chunks yielded so far, concatenated,
\* are the input read from its start, and when the chunking ends they are the
\* whole input, each segment once and in order, for every max_group_tokens.
C3_ChunkCoverage ==
    /\ Bodies(cChunks) = SubSeq(cSegs, 1, Len(Bodies(cChunks)))
    /\ cPc = "done" => Bodies(cChunks) = cSegs

C3_Witness ==
    /\ cPc = "done"
    /\ Len(cChunks) >= 2
    /\ Len(cSegs) >= 3
    /\ \E k \in 1..Len(cChunks) : cChunks[k].head # <<>> /\ cChunks[k].tail # <<>>

\* C4: for a length-preserving transform the output of split has the length of
\* the input, its i-th item is the transform's result for the i-th input
\* segment, taken at a body position of its chunk's call (never a head or tail
\* position), and a chunk with an empty tail contributes its whole body.
C4_SplitKeepsBodyResults ==
    /\ Len(cOut) = Len(Bodies(cChunks))
    /\ cPc = "done" => Len(cOut) = Len(cSegs)
    /\ \A i \in 1..Len(cOut) :
          /\ cOut[i].src = i
          /\ cOut[i].call \in 1..Len(cChunks)
          /\ LET c == cChunks[cOut[i].call]
             IN /\ cOut[i].at > Len(c.head)
                /\ cOut[i].at <= Len(c.head) + Len(c.body)
                /\ c.body[cOut[i].at - Len(c.head)].id = i

C4_Witness ==
    /\ cPc = "done"
    /\ Len(cOut) >= 3
    /\ \E k \in 1..Len(cChunks) : cChunks[k].tail = <<>> /\ cChunks[k].head # <<>>
    /\ \E k \in 1..Len(cChunks) : cChunks[k].tail # <<>>

C6_EmptyInput ==
    cSegs = <<>> => cOut = <<>> /\ cCalls = 0 /\ cChunks = <<>>

C6_Witness == cSegs = <<>> /\ cPc = "done"

(***************************************************************************)
(* Properties of the submitter.  After a turn of do(), uPre is the tree    *)
(* before the turn, uTree the tree after it, LastNode the node submitted.  *)
(***************************************************************************)
Str(opt) == IF opt = None THEN <<>> ELSE opt[1]

\* The text below e in reading order, e's own tail left out
RECURSIVE Reading(_, _)
Reading(t, e) ==
    Str(t[e].text)
    \o Flatten([i \in 1..Len(t[e].kids) |->
                  Reading(t, t[e].kids[i]) \o Str(t[t[e].kids[i]].tail)])

NoSpace(str) == SelectSeq(str, LAMBDA a : a # Space)

Only(str, atoms) == SelectSeq(str, LAMBDA a : a \in atoms)

SegText(segs) == Flatten([i \in 1..Len(segs) |-> segs[i].text])

\* The translated text of a node in the order of its mappings:
\* T1, c1, ..., Tn, cn, Tt
RECURSIVE NodeText(_)
NodeText(node) ==
    Flatten([i \in 1..Len(node.items) |->
               SegText(node.items[i][1]) \o NodeText(node.items[i][2])])
    \o SegText(node.tail_text_segments)

LastNode == uNodes[uNi - 1]

LastParent == ParentOf(uOrig, uRoot, LastNode.raw_element)

\* A turn of do() has submitted a peak node whose element has a parent
PeakSubmitted ==
    /\ uNi > 1
    /\ LastNode.items = <<>>
    /\ LastParent # 0

\* raw is gone from its parent; at its place stand the combined element (if
\* there are segments) and raw's non-inline children, in order, tails cleared,
\* raw's tail on the last of them
ReplacedInPlace(pre, post, parent, raw, segs) ==
    LET K == pre[parent].kids
        i == index_of_parent(pre, parent, raw) + 1
        preserved == NonInline(pre, pre[raw].kids)
    IN \E new \in (IF segs = <<>> THEN {<<>>}
                   ELSE {<<c>> : c \in (Len(pre) + 1)..Len(post)}) :
          /\ post[parent].kids
               = SubSeq(K, 1, i - 1) \o new \o preserved \o SubSeq(K, i + 1, Len(K))
          /\ new # <<>> => Reading(post, new[1]) = SegText(segs)
          /\ \A j \in 1..Len(new \o preserved) :
                post[(new \o preserved)[j]].tail
                  = IF j = Len(new \o preserved) THEN pre[raw].tail ELSE None
          /\ \A j \in 1..Len(preserved) :
                /\ post[preserved[j]].tag = pre[preserved[j]].tag
                /\ post[preserved[j]].text = pre[preserved[j]].text
                /\ post[preserved[j]].kids = pre[preserved[j]].kids

\* C7 as stated: under Replace a submitted peak node with a parent is always
\* removed from the parent, the combined translation at its position, then its
\* non-inline children in order with their tails cleared, the original's tail
\* on the last inserted item.
C7_ReplaceRemovesOriginal ==
    (PeakSubmitted /\ uAct = "REPLACE")
        => ReplacedInPlace(uPre, uTree, LastParent, LastNode.raw_element,
                           LastNode.tail_text_segments)

\* C7 (amended): under Replace a submitted peak node with a parent that has
\* translated segments or a non-inline child is removed from the parent, the
\* combined translation (if any) at its position, then its non-inline
\* children in order with their tails cleared, the original's tail on the
\* last inserted item; with no segments and no non-inline child the original
\* stays where it is and the tree is unchanged.
C7_ReplacePeak ==
    (PeakSubmitted /\ uAct = "REPLACE")
        => IF \/ LastNode.tail_text_segments # <<>>
              \/ NonInline(uPre, uPre[LastNode.raw_element].kids) # <<>>
           THEN ReplacedInPlace(uPre, uTree, LastParent, LastNode.raw_element,
                                LastNode.tail_text_segments)
           ELSE uTree = uPre

\* C7 witness: a replaced paragraph with translated segments, two non-inline
\* children (one with a tail of its own) and a tail
C7_Witness ==
    /\ PeakSubmitted
    /\ uAct = "REPLACE"
    /\ LastNode.tail_text_segments # <<>>
    /\ uPre[LastNode.raw_element].tail # None
    /\ Len(NonInline(uPre, uPre[LastNode.raw_element].kids)) >= 2
    /\ \E e \in Range(NonInline(uPre, uPre[LastNode.raw_element].kids)) :
          uPre[e].tail # None
    /\ LastNode.raw_element \notin Range(uTree[LastParent].kids)

\* The combined translation is a new element right after raw in the parent;
\* raw keeps its tag, text and children, and nothing below raw changes
SiblingAfterOriginal(pre, post, parent, raw, segs) ==
    LET K == pre[parent].kids
        i == index_of_parent(pre, parent, raw) + 1
    IN /\ \E c \in (Len(pre) + 1)..Len(post) :
             /\ post[parent].kids
                  = SubSeq(K, 1, i) \o <<c>> \o SubSeq(K, i + 1, Len(K))
             /\ Reading(post, c) \in {SegText(segs), <<Space>> \o SegText(segs)}
             /\ post[c].tail = pre[raw].tail
       /\ post[raw].tag = pre[raw].tag
       /\ post[raw].text = pre[raw].text
       /\ post[raw].kids = pre[raw].kids
       /\ \A e \in Range(iter_with_stack(pre, raw)) \ {raw} : post[e] = pre[e]

\* The translation is added inside raw, after everything raw held: the parent
\* and raw's tail are as before, raw's old children are its first children,
\* and raw reads as before with the translation after it
AppendedInsideOriginal(pre, post, parent, raw, segs) ==
    /\ post[parent].kids = pre[parent].kids
    /\ post[raw].tag = pre[raw].tag
    /\ post[raw].tail = pre[raw].tail
    /\ Len(post[raw].kids) >= Len(pre[raw].kids)
    /\ SubSeq(post[raw].kids, 1, Len(pre[raw].kids)) = pre[raw].kids
    /\ NoSpace(Reading(post, raw)) = NoSpace(Reading(pre, raw)) \o SegText(segs)

\* C8 as stated: under AppendBlock and AppendText alike a submitted peak node
\* (with a parent and translated segments) gets the translation as a new
\* sibling right after the original, and the original's tag, text and
\* children are untouched.
C8_AppendInsertsSibling ==
    (/\ PeakSubmitted
     /\ uAct \in {"APPEND_BLOCK", "APPEND_TEXT"}
     /\ LastNode.tail_text_segments # <<>>)
        => SiblingAfterOriginal(uPre, uTree, LastParent, LastNode.raw_element,
                                LastNode.tail_text_segments)

\* C8 (amended): under AppendBlock a submitted peak node with a parent and
\* translated segments gets the translation as a new sibling right after the
\* original, which keeps its tag, text and children (its tail moves to the
\* new sibling); under AppendText the translation is appended inside the
\* original element, after its last child or after its text, and the parent
\* gains no child.
C8_AppendPeak ==
    (PeakSubmitted /\ LastNode.tail_text_segments # <<>>)
        => /\ uAct = "APPEND_BLOCK"
                => /\ SiblingAfterOriginal(uPre, uTree, LastParent,
                                           LastNode.raw_element,
                                           LastNode.tail_text_segments)
                   /\ uTree[LastNode.raw_element].tail = None
           /\ uAct = "APPEND_TEXT"
                => AppendedInsideOriginal(uPre, uTree, LastParent,
                                          LastNode.raw_element,
                                          LastNode.tail_text_segments)

\* C8 witness: a block appended after a paragraph that has children and a
\* tail, the translation having an inline child of its own
C8_Witness ==
    /\ PeakSubmitted
    /\ uAct = "APPEND_BLOCK"
    /\ Len(LastNode.tail_text_segments) >= 2
    /\ uPre[LastNode.raw_element].kids # <<>>
    /\ uPre[LastNode.raw_element].tail # None
    /\ Len(uTree[LastParent].kids) = Len(uPre[LastParent].kids) + 1

\* The other case of C8: text appended inside a paragraph that has children
C8_AppendTextReached ==
    /\ PeakSubmitted
    /\ uAct = "APPEND_TEXT"
    /\ Len(LastNode.tail_text_segments) >= 2
    /\ uPre[LastNode.raw_element].kids # <<>>
    /\ uTree[LastParent].kids = uPre[LastParent].kids

\* C9 as stated: after a platform node is submitted, under any SubmitKind,
\* its element reads T1', c1, T2', c2, ..., Tn', cn, Tt': every translated run
\* of the node's mappings is there, in the order of the mappings, for n >= 2
\* as for n = 1.
C9_PlatformReadingOrder ==
    (uNi > 1 /\ LastNode.items # <<>>)
        => Only(Reading(uTree, LastNode.raw_element), Range(NodeText(LastNode)))
             = NodeText(LastNode)

\* The part of C9 that does hold: the append kinds, and one nested child,
\* the nested children being below the node's element when it is submitted
C9_ReadingOrderAppendOrSingle ==
    (/\ uNi > 1
     /\ LastNode.items # <<>>
     /\ uAct # "REPLACE" \/ Len(LastNode.items) = 1
     /\ \A i \in 1..Len(LastNode.items) :
           _find_anchor_in_parent(uPre, LastNode.raw_element,
                                  LastNode.items[i][2].raw_element) # 0)
        => Only(Reading(uTree, LastNode.raw_element), Range(NodeText(LastNode)))
             = NodeText(LastNode)

\* C10: submitting a node all of whose translated-segment lists are empty,
\* under AppendText or AppendBlock, leaves the tree as it was: no element
\* added, removed or moved, no text or tail changed.
C10_EmptyAppendUnchanged ==
    (/\ uNi > 1
     /\ uAct \in {"APPEND_TEXT", "APPEND_BLOCK"}
     /\ NodeText(LastNode) = <<>>)
        => uTree = uPre

\* C10 witness: an empty mapping submitted as a block on an element that has a
\* parent, children and a tail
C10_Witness ==
    /\ PeakSubmitted
    /\ uAct = "APPEND_BLOCK"
    /\ LastNode.tail_text_segments = <<>>
    /\ uPre[LastNode.raw_element].tail # None
    /\ uPre[LastNode.raw_element].kids # <<>>

\* The other cases of C10: an empty platform node, under AppendText
C10_EmptyPlatformReached ==
    /\ uNi > 1
    /\ uAct = "APPEND_TEXT"
    /\ LastNode.items # <<>>
    /\ NodeText(LastNode) = <<>>

\* The position of the first translated atom of str that old does not hold,
\* 0 for none
FirstNew(str, old) ==
    LET is == {i \in 1..Len(str) : str[i][1] >= 1 /\ str[i] \notin Range(old)}
    IN IF is = {} THEN 0 ELSE CHOOSE i \in is : \A j \in is : i <= j

\* The mapped element whose translation holds atom a
OwnerOf(a) == (CHOOSE m \in Range(uMaps) : a \in Range(SegText(m.segs))).el

\* old (an optional string) became new by an append of translated text: what
\* stands before the appended text is old with one space after it (its
\* trailing spaces stripped) when inject, old as it was otherwise; with
\* replaced, old may also have been cleared first
JoinedAs(old, new, inject, replaced) ==
    LET at == FirstNew(Str(new), Str(old))
        before == SubSeq(Str(new), 1, at - 1)
    IN (new # old /\ at > 0)
          => \/ old = None /\ before = <<>>
             \/ old # None /\ inject /\ before = RStrip(old[1]) \o <<Space>>
             \/ old # None /\ ~inject /\ before = old[1]
             \/ replaced /\ before = <<>>

\* whether the text whose first atom is at FirstNew is joined with a space
InjectFor(old, new) ==
    \/ uAct = "APPEND_TEXT"
    \/ /\ uAct = "APPEND_BLOCK"
       /\ FirstNew(Str(new), Str(old)) > 0
       /\ is_inline_element(uOrig, OwnerOf(Str(new)[FirstNew(Str(new), Str(old))]))

\* The nodes of a node's tree that are submitted as one block
RECURSIVE PeaksOf(_)
PeaksOf(node) ==
    IF node.items = <<>> THEN {node}
    ELSE UNION {PeaksOf(node.items[i][2]) : i \in 1..Len(node.items)}

\* C11: translated text appended onto a text or tail that is not None is
\* separated from it by exactly one space under AppendText, under AppendBlock
\* only when the appended content's root is an inline element with leading
\* text (whose own text then starts with a space when it is inserted as a
\* block), and by nothing under Replace or for block-level content; appended
\* onto None it is stored as it is.
C11_SpaceInjection ==
    uNi > 1 =>
        /\ \A e \in 1..Len(uPre) :
              /\ JoinedAs(uPre[e].text, uTree[e].text,
                          InjectFor(uPre[e].text, uTree[e].text), uAct = "REPLACE")
              /\ JoinedAs(uPre[e].tail, uTree[e].tail,
                          InjectFor(uPre[e].tail, uTree[e].tail), uAct = "REPLACE")
        /\ \A c \in (Len(uPre) + 1)..Len(uTree) :
              (Str(uTree[c].text) # <<>> /\ Str(uTree[c].text)[1] = Space)
                 <=> /\ uAct = "APPEND_BLOCK"
                     /\ is_inline_element(uTree, c)
                     /\ \E n \in PeaksOf(LastNode) :
                           /\ ParentOf(uOrig, uRoot, n.raw_element) # 0
                           /\ c \in Range(uTree[ParentOf(uOrig, uRoot,
                                                         n.raw_element)].kids)
                           /\ n.tail_text_segments # <<>>
                           /\ ~n.tail_text_segments[1].wrap
                           /\ n.tail_text_segments[1].text[1]
                                 \in Range(Str(uTree[c].text))

\* C11 witness: under AppendBlock the text of an inline block was joined to a
\* tail that ended in a space, one space between them
C11_Witness ==
    /\ uNi > 1
    /\ uAct = "APPEND_BLOCK"
    /\ \E e \in 1..Len(uPre) :
          /\ uPre[e].tail # None
          /\ uPre[e].tail[1][Len(uPre[e].tail[1])] = Space
          /\ FirstNew(Str(uTree[e].tail), Str(uPre[e].tail)) = Len(uPre[e].tail[1]) + 1

\* What submit hands back: replaced_root, or element when it is None
Returned == IF uRet = 0 THEN uRoot ELSE uRet

\* The root itself is a mapped peak with translated text, to be replaced
RootToReplace ==
    /\ uAct = "REPLACE"
    /\ \E i \in 1..Len(uNodes) :
          /\ uNodes[i].raw_element = uRoot
          /\ uNodes[i].items = <<>>
          /\ uNodes[i].tail_text_segments # <<>>

\* C12 as stated: when the root block itself is mapped and replaced by its
\* translation, submit returns a new root element, which holds the translation;
\* in every other case it returns the root that was passed in.
C12_ReturnsReplacedRoot ==
    uPc = "done" =>
        IF RootToReplace
        THEN /\ Returned > Len(uOrig)
             /\ NoSpace(Reading(uTree, Returned)) = SegText(uMaps[1].segs)
        ELSE Returned = uRoot

\* The part of C12 that does hold: what is handed back is the root passed in
C12_ReturnsOriginalRoot == uPc = "done" => Returned = uRoot

\* The mapped root under Replace: handed back as it was, the translation gone
C12_RootLeftUntranslated ==
    (uPc = "done" /\ RootToReplace) => uRet = uRoot /\ uTree = uOrig

Mapped == {uMaps[i].el : i \in 1..Len(uMaps)}

\* e is a block of the document that is not mapped, holds no mapped block and
\* lies in none
Unrelated(e) ==
    /\ ~is_inline_element(uOrig, e)
    /\ \A m \in Mapped :
          /\ m \notin Range(iter_with_stack(uOrig, e))
          /\ e \notin Range(iter_with_stack(uOrig, m))

\* C13: with no mappings the tree stays as it is under every SubmitKind, and a
\* block that is not mapped, holds no mapped block and lies in none keeps its
\* tag, text, children and tail, and its place, whatever is submitted for the
\* other blocks.
C13_UnmappedUntouched ==
    /\ uMaps = <<>> => uTree = uOrig
    /\ \A e \in 1..Len(uOrig) :
          Unrelated(e)
             => /\ \A d \in Range(iter_with_stack(uOrig, e)) : uTree[d] = uOrig[d]
                /\ ParentOf(uTree, uRoot, e) = ParentOf(uOrig, uRoot, e)

\* C13 witness: a replacement was made next to a block with text and a tail
\* that was left out of the mappings
C13_Witness ==
    /\ uPc = "done"
    /\ uAct = "REPLACE"
    /\ uTree # uOrig
    /\ \E e \in 1..Len(uOrig) :
          /\ Unrelated(e)
          /\ uOrig[e].text # None
          /\ uOrig[e].tail # None
          /\ uOrig[e].kids # <<>>

\* The other case of C13: no mappings at all
C13_NoMappingsReached == uPc = "done" /\ uMaps = <<>> /\ uAct = "REPLACE"

(***************************************************************************)
(* More properties of the score engine.                                    *)
(***************************************************************************)
\* The TextSegment leaves below node n, depth first, in document order
RECURSIVE Leaves(_, _)
Leaves(tree, n) ==
    IF tree[n].kind = "text" THEN <<n>>
    ELSE Flatten([i \in 1..Len(tree[n].children) |-> Leaves(tree, tree[n].children[i])])

\* C14: expand_to_score_segments yields one ScoreSegment per TextSegment leaf
\* of the inline tree, in depth-first document order, each with the leaf's
\* text as it is: none dropped, doubled or merged.
C14_OneSegmentPerLeaf ==
    sPc \in {"expanded", "called"} =>
        /\ [i \in 1..Len(sSegs) |-> sSegs[i].leaf] = Leaves(InlineTrees[sTree], 1)
        /\ \A i \in 1..Len(sSegs) : sSegs[i].text = InlineTrees[sTree][sSegs[i].leaf].text

\* C14 witness: three leaves, one between two adjacent leaves with no inline
\* boundary on either side
C14_Witness ==
    /\ sPc = "expanded"
    /\ Len(sSegs) >= 3
    /\ \E i \in 2..(Len(sSegs) - 1) :
          sSegs[i].left_parents = <<>> /\ sSegs[i].right_parents = <<>>

\* The other shapes of C14: leaves parted by an opening, by a closing boundary
C14_BoundariesReached ==
    /\ sPc = "expanded"
    /\ \E i \in 1..(Len(sSegs) - 1) :
          /\ sSegs[i].right_parents # <<>>
          /\ Len(sSegs[i + 1].left_parents) >= 1

\* The inline segments of a tree, and whether each has a text leaf in it
InlineNodes(tree) == {n \in 1..Len(tree) : tree[n].kind = "inline"}

EveryInlineHasLeaf(tree) == \A n \in InlineNodes(tree) : Leaves(tree, n) # <<>>

\* The openings and closings of the ScoreSegments in emission order: of each
\* segment its left_parents, then its right_parents
Boundaries(segs) ==
    Flatten([i \in 1..Len(segs) |->
               [j \in 1..Len(segs[i].left_parents) |-> <<"open", segs[i].left_parents[j]>>]
               \o [j \in 1..Len(segs[i].right_parents) |->
                      <<"close", segs[i].right_parents[j]>>]])

\* Every closing closes the segment opened last and not yet closed, and
\* nothing stays open
RECURSIVE ProperlyNested(_, _)
ProperlyNested(bs, open) ==
    IF bs = <<>> THEN open = <<>>
    ELSE IF Head(bs)[1] = "open" THEN ProperlyNested(Tail(bs), Append(open, Head(bs)[2]))
    ELSE /\ open # <<>>
         /\ open[Len(open)] = Head(bs)[2]
         /\ ProperlyNested(Tail(bs), SubSeq(open, 1, Len(open) - 1))

\* The ScoreSegments that open, and that close, the inline segment n
OpenedIn(n) ==
    {<<i, j>> \in (1..Len(sSegs)) \X (1..Len(InlineTrees[sTree])) :
        j <= Len(sSegs[i].left_parents) /\ sSegs[i].left_parents[j] = n}

ClosedIn(n) ==
    {<<i, j>> \in (1..Len(sSegs)) \X (1..Len(InlineTrees[sTree])) :
        j <= Len(sSegs[i].right_parents) /\ sSegs[i].right_parents[j] = n}

\* C27: in the expansion of a tree whose inline segments all have a text
\* leaf, every inline segment, the root too, is in the left_parents of one
\* ScoreSegment once and in the right_parents of one ScoreSegment once, opened
\* in the same or an earlier ScoreSegment than it is closed, and the openings
\* and closings in emission order are balanced and properly nested.
C27_ParentsBalanced ==
    (sPc \in {"expanded", "called"} /\ EveryInlineHasLeaf(InlineTrees[sTree])) =>
        /\ \A n \in InlineNodes(InlineTrees[sTree]) :
              /\ Cardinality(OpenedIn(n)) = 1
              /\ Cardinality(ClosedIn(n)) = 1
              /\ \A o \in OpenedIn(n), c \in ClosedIn(n) : o[1] <= c[1]
        /\ ProperlyNested(Boundaries(sSegs), <<>>)

\* C27 witness: an expansion of nested inline segments over two ScoreSegments
C27_Witness ==
    /\ sPc = "expanded"
    /\ EveryInlineHasLeaf(InlineTrees[sTree])
    /\ Cardinality(InlineNodes(InlineTrees[sTree])) >= 3
    /\ Len(sSegs) >= 2
    /\ Len(sSegs[1].right_parents) >= 2

\* An inline segment opened in one ScoreSegment and closed in a later one
C27_OpenAcrossSegmentsReached ==
    /\ sPc = "expanded"
    /\ EveryInlineHasLeaf(InlineTrees[sTree])
    /\ \E n \in InlineNodes(InlineTrees[sTree]) :
          \E o \in OpenedIn(n), c \in ClosedIn(n) : o[1] < c[1]

\* Without a text leaf in some inline segment the openings pending when it
\* closes are dropped
C27_DroppedOpeningsReached ==
    /\ sPc = "expanded"
    /\ ~EveryInlineHasLeaf(InlineTrees[sTree])
    /\ ~ProperlyNested(Boundaries(sSegs), <<>>)

\* The inline segments that carry an id
IdNodes(tree) == {n \in InlineNodes(tree) : tree[n].id # 0}

\* The characters of the fragment of the i-th ScoreSegment, as rendered for
\* its score
Fragment(i) == _render_score_segment(InlineTrees[sTree], sSegs[i], i = 1)

\* The part of the score of the i-th ScoreSegment that is not the token
\* count of its fragment
WeightIn(i) == sSegs[i].score - Len(encode(Fragment(i)))

\* The id weight is added once for each id-carrying inline segment, to the
\* ScoreSegment that opens it
WeightedOnce ==
    /\ \A n \in IdNodes(InlineTrees[sTree]) : Cardinality(OpenedIn(n)) = 1
    /\ \A i \in 1..Len(sSegs) :
          WeightIn(i) = 80 * Cardinality({n \in IdNodes(InlineTrees[sTree]) :
                                            \E o \in OpenedIn(n) : o[1] = i})
    /\ SumSeq([i \in 1..Len(sSegs) |-> WeightIn(i)])
         = 80 * Cardinality(IdNodes(InlineTrees[sTree]))

C28_IdWeightedOnceWithLeaves ==
    (sPc \in {"expanded", "called"} /\ EveryInlineHasLeaf(InlineTrees[sTree]))
    => WeightedOnce

\* C28 witness: two id-carrying inline segments opened by different
\* ScoreSegments
C28_Witness ==
    /\ sPc = "expanded"
    /\ EveryInlineHasLeaf(InlineTrees[sTree])
    /\ Cardinality(IdNodes(InlineTrees[sTree])) = 2
    /\ WeightIn(1) = 80
    /\ WeightIn(2) = 80

\* The number of origin-length markers in a fragment, and whether the first
\* tag of the fragment holds one
MarkerCount(str) == Cardinality({k \in 1..(Len(str) - 2) :
                                   SubSeq(str, k, k + 2) = DATA_ORIGIN_LEN_KEY})

FirstTag(str) ==
    SubSeq(str, 1, CHOOSE k \in 1..Len(str) :
                      str[k] = ">" /\ \A h \in 1..(k - 1) : str[h] # ">")

MarkedOnce ==
    /\ sSegs # <<>>
    /\ Fragment(1)[1] = "<"
    /\ MarkerCount(FirstTag(Fragment(1))) = 1
    /\ MarkerCount(Fragment(1)) = 1
    /\ \A i \in 2..Len(sSegs) : MarkerCount(Fragment(i)) = 0
    /\ \A i \in 1..Len(sSegs) :
          sSegs[i].score = Len(encode(Fragment(i)))
                           + 80 * IdCount(InlineTrees[sTree], sSegs[i])

C29_MarkerOnceWithLeaves ==
    (sPc \in {"expanded", "called"} /\ EveryInlineHasLeaf(InlineTrees[sTree]))
    => MarkedOnce

\* C29 witness: an expansion whose first and later ScoreSegments both open
\* inline segments
C29_Witness ==
    /\ sPc = "expanded"
    /\ EveryInlineHasLeaf(InlineTrees[sTree])
    /\ Len(sSegs) >= 2
    /\ Len(sSegs[1].left_parents) >= 2
    /\ sSegs[2].left_parents # <<>>

\* tail_elements as _submit_by_text computes it for a node on the tree t
TailElementsOf(t, node) ==
    TailElementsLoop({NodeKey(node.items[i][2]) : i \in 1..Len(node.items)},
                     t[node.raw_element].kids, 0, {})

\* The tree after the first k items of the item loop of _submit_by_text
AfterItems(k) ==
    SubmitItems(Context, uPre, LastNode, TailElementsOf(uPre, LastNode),
                SubSeq(LastNode.items, 1, k))

\* before and after agree on the text of raw and on its children up to the
\* anchor of child: the same elements at the same places, with the same
\* tag, text and children, and up to the anchor the same tail
KeptUpTo(before, after, raw, child) ==
    LET anchor == _find_anchor_in_parent(before, raw, child)
        n == index_of_parent(before, raw, anchor) + 1
    IN /\ after[raw].text = before[raw].text
       /\ Len(after[raw].kids) >= n
       /\ SubSeq(after[raw].kids, 1, n) = SubSeq(before[raw].kids, 1, n)
       /\ \A i \in 1..n :
             LET e == before[raw].kids[i]
             IN /\ after[e].tag = before[e].tag
                /\ after[e].text = before[e].text
                /\ after[e].kids = before[e].kids
                /\ i < n => after[e].tail = before[e].tail

\* C21 as stated: under Replace, the item of the k-th nested child (k >= 2) of
\* a platform node removes only what lies between the previous nested child's
\* anchor and its own: the node's leading text, the translated text spliced
\* in for the earlier items and the earlier anchors keep their place and
\* content.
C21_EarlierContentKept ==
    (uNi > 1 /\ uAct = "REPLACE" /\ Len(LastNode.items) >= 2)
        => \A k \in 2..Len(LastNode.items) :
              KeptUpTo(AfterItems(k - 1), AfterItems(k), LastNode.raw_element,
                       LastNode.items[k - 1][2].raw_element)

\* The part of C21 that does hold: the first item of a platform node under
\* Replace removes what stands before its anchor, the non-inline elements of
\* it are put back before the anchor in their order, and the anchor and what
\* follows it stay
C21_FirstItemRemovesLeading ==
    (uNi > 1 /\ uAct = "REPLACE" /\ LastNode.items # <<>>
       /\ _find_anchor_in_parent(uPre, LastNode.raw_element,
                                 LastNode.items[1][2].raw_element) # 0)
        => LET raw == LastNode.raw_element
               anchor == _find_anchor_in_parent(uPre, raw,
                                                LastNode.items[1][2].raw_element)
               n == index_of_parent(uPre, raw, anchor)
               K == uPre[raw].kids
               after == AfterItems(1)[raw].kids
               m == index_of_parent(AfterItems(1), raw, anchor)
               kept == NonInline(uPre, SubSeq(K, 1, n))
           IN /\ SubSeq(after, m + 1, Len(after)) = SubSeq(K, n + 1, Len(K))
              /\ m >= Len(kept)
              /\ SubSeq(after, m - Len(kept) + 1, m) = kept

\* A platform node with two nested children has been submitted under Replace
C21_TwoItemsReached ==
    /\ uNi > 1
    /\ uAct = "REPLACE"
    /\ Len(LastNode.items) >= 2
    /\ \A k \in 1..2 : LastNode.items[k][1] # <<>>

\* The original text of raw that follows child: the tails of raw's children
\* from the anchor of child on and the text inside the inline ones after it
TrailingOriginal(t, raw, child) ==
    LET anchor == _find_anchor_in_parent(t, raw, child)
        n == index_of_parent(t, raw, anchor) + 1
        K == t[raw].kids
    IN Range(Flatten([i \in 1..Len(K) |->
                        IF i < n THEN <<>>
                        ELSE (IF i > n /\ is_inline_element(t, K[i])
                              THEN Reading(t, K[i]) ELSE <<>>)
                             \o Str(t[K[i]].tail)]))

LastItem == LastNode.items[Len(LastNode.items)]

\* C22 as stated: under Replace, after a platform node has been submitted, the
\* original tail text and inline elements that followed its last nested child
\* are gone from the node and the translated trailing text stands there.
C22_TrailingReplaced ==
    (/\ uNi > 1
     /\ uAct = "REPLACE"
     /\ LastNode.items # <<>>
     /\ LastNode.tail_text_segments # <<>>
     /\ _find_anchor_in_parent(uPre, LastNode.raw_element, LastItem[2].raw_element) # 0)
        => Only(Reading(uTree, LastNode.raw_element),
                TrailingOriginal(uPre, LastNode.raw_element, LastItem[2].raw_element))
             = <<>>

\* The part of C22 that does hold: when the anchor of the last nested child
\* is the last child of the node's element, the original trailing text is
\* gone after the submit
C22_TrailingReplacedAfterLastChild ==
    (/\ uNi > 1
     /\ uAct = "REPLACE"
     /\ LastNode.items # <<>>
     /\ LastNode.tail_text_segments # <<>>
     /\ _find_anchor_in_parent(uPre, LastNode.raw_element, LastItem[2].raw_element)
          = uPre[LastNode.raw_element].kids[Len(uPre[LastNode.raw_element].kids)])
        => Only(Reading(uTree, LastNode.raw_element),
                TrailingOriginal(uPre, LastNode.raw_element, LastItem[2].raw_element))
             = <<>>

\* A platform node with trailing text whose last nested child is followed by
\* an inline element has been submitted under Replace
C22_InlineAfterLastChildReached ==
    /\ uNi > 1
    /\ uAct = "REPLACE"
    /\ LastNode.items # <<>>
    /\ LastNode.tail_text_segments # <<>>
    /\ LET K == uPre[LastNode.raw_element].kids
       IN /\ LastItem[2].raw_element \in Range(K)
          /\ is_inline_element(uPre, K[Len(K)])
          /\ K[Len(K)] # LastItem[2].raw_element

\* No child of the element of LastNode holds the element of any of its items
AnchorsMissing ==
    /\ LastNode.items # <<>>
    /\ \A i \in 1..Len(LastNode.items) :
          _find_anchor_in_parent(uPre, LastNode.raw_element,
                                 LastNode.items[i][2].raw_element) = 0

\* C23: when no anchor is found inside a platform node for a nested child
\* mapping, the item is skipped: nothing is removed and nothing inserted for
\* it (its translated text is nowhere in the document), and the submit goes
\* on with the nested children and the trailing text of the node as if the
\* item loop had not been there.
C23_MissingAnchorSkipped ==
    (uNi > 1 /\ AnchorsMissing)
        => /\ \A k \in 1..Len(LastNode.items) : AfterItems(k) = uPre
           /\ uTree = _submit_by_text(
                        Context,
                        SubmitChildren(Context, [t |-> uPre, ret |-> 0],
                                       LastNode.items, 1).t,
                        [LastNode EXCEPT !.items = <<>>]).t
           /\ \A k \in 1..Len(LastNode.items) :
                 Only(Reading(uTree, uRoot), Range(SegText(LastNode.items[k][1]))) = <<>>

\* C23 witness: a platform node with translated text before a nested child
\* that is no longer below the node's element, and trailing text, submitted
C23_Witness ==
    /\ uNi > 1
    /\ AnchorsMissing
    /\ LastNode.items[1][1] # <<>>
    /\ LastNode.items[1][2].tail_text_segments # <<>>
    /\ uTree # uPre

\* The submit goes on to its end after an item without an anchor
C23_DoneAfterSkipReached == uPc = "done" /\ uNi > 1 /\ AnchorsMissing

(***************************************************************************)
(* Properties of _nest_nodes.                                              *)
(***************************************************************************)
\* The nodes in and below a node, and the nodes that are in an items list
RECURSIVE CountNodes(_)
CountNodes(node) ==
    1 + SumSeq([i \in 1..Len(node.items) |-> CountNodes(node.items[i][2])])

RECURSIVE CountItems(_)
CountItems(node) ==
    Len(node.items) + SumSeq([i \in 1..Len(node.items) |-> CountItems(node.items[i][2])])

CountIn(nodes) == SumSeq([i \in 1..Len(nodes) |-> CountNodes(nodes[i])])

ItemsIn(nodes) == SumSeq([i \in 1..Len(nodes) |-> CountItems(nodes[i])])

\* C17: every node created is popped from the stack once, and then it is in
\* the items of one parent or yielded as a root, never both, never twice; when
\* the generator ends the stack is empty and every node lies below exactly one
\* yielded root.
C17_EachNodePoppedOnce ==
    /\ CountIn(nSt.stack) + CountIn(nSt.out) = nCreated
    /\ nPopped = nCreated - Len(nSt.stack)
    /\ nPopped = ItemsIn(nSt.stack) + ItemsIn(nSt.out) + Len(nSt.out)
    /\ nPc = "done" => nSt.stack = <<>> /\ nPopped = nCreated

\* C17 witness: the generator ended with two roots, one of them holding two
\* nodes below it
C17_Witness ==
    /\ nPc = "done"
    /\ Len(nSt.out) >= 2
    /\ nCreated >= 4
    /\ \E i \in 1..Len(nSt.out) : Len(nSt.out[i].items) >= 2

Below(t, e) == Range(iter_with_stack(t, e)) \ {e}

\* C18: after each mapping the stack is a containment chain: each entry's
\* element lies properly below the element of the entry under it, no element
\* is on the stack twice, and the top entry's element is the element of the
\* mapping just processed.
C18_StackIsChain ==
    (nPc = "loop" /\ nI > 1) =>
        /\ nSt.stack # <<>>
        /\ nSt.stack[Len(nSt.stack)].raw_element = nMaps[nI - 1].el
        /\ \A i \in 2..Len(nSt.stack) :
              nSt.stack[i].raw_element \in Below(nTree, nSt.stack[i - 1].raw_element)
        /\ \A i, j \in 1..Len(nSt.stack) :
              i # j => nSt.stack[i].raw_element # nSt.stack[j].raw_element

\* C18 witness: after a mapping the stack holds three blocks, each inside
\* the one under it
C18_Witness ==
    /\ nPc = "loop"
    /\ nI > 1
    /\ Len(nSt.stack) >= 3

\* The chain is also met after a fold: two entries left, the upper one pushed
\* after other nodes were popped
C18_ChainAfterFoldReached ==
    /\ nPc = "loop"
    /\ nI > 1
    /\ Len(nSt.stack) = 2
    /\ nPopped >= 2

\* The text segments of a node in reading order
RECURSIVE NodeSegs(_)
NodeSegs(node) ==
    Flatten([i \in 1..Len(node.items) |->
               node.items[i][1] \o NodeSegs(node.items[i][2])])
    \o node.tail_text_segments

ForestSegs(nodes) == Flatten([i \in 1..Len(nodes) |-> NodeSegs(nodes[i])])

\* C19: a mapping for an element open on the stack extends that element's
\* node (it gets the mapping's segments at the end of its tail, and no second
\* node for the element is opened), and the yielded roots read in order, then
\* the stack from the bottom, give the text segments of the mappings processed
\* so far, in input order, each once; at the end that is the forest.
C19_TextConservedInOrder ==
    /\ ForestSegs(nSt.out) \o ForestSegs(nSt.stack)
         = Flatten([i \in 1..(nI - 1) |-> nMaps[i].segs])
    /\ nPc = "done" => ForestSegs(nSt.out) = Flatten([i \in 1..Len(nMaps) |-> nMaps[i].segs])
    /\ (nPc = "loop" /\ nI > 1) =>
          /\ \A i, j \in 1..Len(nSt.stack) :
                i # j => nSt.stack[i].raw_element # nSt.stack[j].raw_element
          /\ LET top == nSt.stack[Len(nSt.stack)]
                 n == Len(top.tail_text_segments)
                 k == Len(nMaps[nI - 1].segs)
             IN /\ top.raw_element = nMaps[nI - 1].el
                /\ n >= k
                /\ SubSeq(top.tail_text_segments, n - k + 1, n) = nMaps[nI - 1].segs

\* C19 witness: the forest of a block whose text comes in three runs, cut by
\* two nested blocks, every run and block with text
C19_Witness ==
    /\ nPc = "done"
    /\ Len(nMaps) = 5
    /\ \A i \in 1..5 : nMaps[i].segs # <<>>
    /\ Len(nSt.out) = 1
    /\ Len(nSt.out[1].items) = 2
    /\ nCreated = 3

nMapped == {nMaps[i].el : i \in 1..Len(nMaps)}

\* C20 as stated: a mapped element that lies properly below another mapped
\* element is never yielded as a root of its own, also when its first mapping
\* comes before the first mapping of the element above it.
C20_NestedNeverRoot ==
    \A i \in 1..Len(nSt.out) :
        \A a \in nMapped : nSt.out[i].raw_element \notin Below(nTree, a)

FirstMapping(e) == CHOOSE i \in 1..Len(nMaps) :
                      nMaps[i].el = e /\ \A j \in 1..(i - 1) : nMaps[j].el # e

\* The part of C20 that does hold: a mapped element whose first mapping comes
\* after the first mapping of a mapped element above it is not yielded as a root
C20_NestedAfterParentNotRoot ==
    \A i \in 1..Len(nSt.out) :
        \A a \in nMapped :
            nSt.out[i].raw_element \in Below(nTree, a)
               => FirstMapping(nSt.out[i].raw_element) < FirstMapping(a)

(***************************************************************************)
(* Properties of create_element and validate.                              *)
(***************************************************************************)
\* An element without its text: tags, ids and nesting
RECURSIVE Skeleton(_)
Skeleton(e) ==
    [tag |-> e.tag, id |-> e.id,
     kids |-> [i \in 1..Len(e.kids) |-> Skeleton(e.kids[i])]]

\* C15: validate applied to the element create_element() built for the same
\* segment, unmodified or with only text inside the tags changed, yields no
\* error.
C15_RoundTripSkeleton ==
    (vPc = "validated"
       /\ Skeleton(vEl[1]) = Skeleton(create_element(ValTrees[vSeg], 1)))
    => vErrors = <<>>

\* C15 witness: a skeleton copy with two children whose text was changed has
\* been validated
C15_Witness ==
    /\ vPc = "validated"
    /\ vEdits >= 1
    /\ Len(vEl[1].kids) >= 2
    /\ vEl[1] # create_element(ValTrees[vSeg], 1)
    /\ Skeleton(vEl[1]) = Skeleton(create_element(ValTrees[vSeg], 1))

\* The unmodified copy of a segment that assigned ids is validated too
C15_UnmodifiedWithIdsReached ==
    /\ vPc = "validated"
    /\ vEdits = 0
    /\ AssignedIds(ValTrees[vSeg]) # {}

ErrorKinds == {vErrors[i].kind : i \in 1..Len(vErrors)}

RECURSIVE Picks(_, _, _)
Picks(keys, key, i) ==
    IF i > Len(keys) THEN <<>>
    ELSE (IF keys[i] = key THEN <<i>> ELSE <<>>) \o Picks(keys, key, i + 1)

\* The element has the shape of the segment's skeleton: at every nesting
\* point the children of each tag and id are as many as in the segment, and
\* they match it one by one in order
RECURSIVE SkeletonMatch(_, _, _)
SkeletonMatch(tree, n, e) ==
    LET Same(cs, ckeys, kkeys) ==
            \A key \in Range(ckeys) \cup Range(kkeys) :
                /\ Len(Picks(ckeys, key, 1)) = Len(Picks(kkeys, key, 1))
                /\ \A j \in 1..Len(Picks(ckeys, key, 1)) :
                      SkeletonMatch(tree, cs[Picks(ckeys, key, 1)[j]],
                                    e.kids[Picks(kkeys, key, 1)[j]])
        Keyed(cs) == Same(cs, [i \in 1..Len(cs) |-> <<tree[cs[i]].tag, tree[cs[i]].id>>],
                          [i \in 1..Len(e.kids) |-> <<e.kids[i].tag, e.kids[i].id>>])
    IN Keyed(InlineOnly(tree, tree[n].children))

\* Some nesting point, reached through matched children, where the number
\* of children of some tag differs
RECURSIVE CountDiffers(_, _, _)
CountDiffers(tree, n, e) ==
    LET Here(cs) ==
            \E t \in {tree[cs[i]].tag : i \in 1..Len(cs)}
                     \cup {e.kids[i].tag : i \in 1..Len(e.kids)} :
                Cardinality({i \in 1..Len(cs) : tree[cs[i]].tag = t})
                  # Cardinality({i \in 1..Len(e.kids) : e.kids[i].tag = t})
        Deeper(ms) ==
            \E i \in 1..Len(ms) :
                ms[i][2] # 0 /\ CountDiffers(tree, ms[i][1], e.kids[ms[i][2]])
    IN Here(InlineOnly(tree, tree[n].children)) \/ Deeper(_match_children(tree, n, e))

\* Some nesting point, reached through matched children, where a child
\* element carries an id for which the segment has no child of that tag and id
RECURSIVE IdMisplaced(_, _, _)
IdMisplaced(tree, n, e) ==
    LET Here(cs) ==
            \E j \in 1..Len(e.kids) :
                /\ e.kids[j].id # 0
                /\ \A i \in 1..Len(cs) :
                      tree[cs[i]].id # e.kids[j].id \/ tree[cs[i]].tag # e.kids[j].tag
        Deeper(ms) ==
            \E i \in 1..Len(ms) :
                ms[i][2] # 0 /\ IdMisplaced(tree, ms[i][1], e.kids[ms[i][2]])
    IN Here(InlineOnly(tree, tree[n].children)) \/ Deeper(_match_children(tree, n, e))

\* Some element of the markup carries an id the segment assigned to nothing
ForeignId(tree, e) ==
    \E i \in 1..Len(ElemsOf(e)) :
        ElemsOf(e)[i].id # 0 /\ ElemsOf(e)[i].id \notin AssignedIds(tree)

\* C16: validate returns a sequence of errors; it holds a WrongTagCount
\* error whenever at some nesting point the number of children of a tag
\* differs from the original, an UnexpectedId error whenever the markup
\* carries an id the segment never assigned, or carries one on a child for
\* which the segment assigned none, and it is empty exactly when the
\* transformed shape matches the skeleton of the segment.
C16_ValidateReports ==
    vPc = "validated" =>
        /\ ErrorKinds \subseteq {"WrongTagCount", "UnexpectedId", "UnresolvedId"}
        /\ CountDiffers(ValTrees[vSeg], 1, vEl[1]) => "WrongTagCount" \in ErrorKinds
        /\ ForeignId(ValTrees[vSeg], vEl[1]) => "UnexpectedId" \in ErrorKinds
        /\ IdMisplaced(ValTrees[vSeg], 1, vEl[1]) => "UnexpectedId" \in ErrorKinds
        /\ vErrors = <<>>
             <=> (vEl[1].id = ValTrees[vSeg][1].id
                    /\ SkeletonMatch(ValTrees[vSeg], 1, vEl[1]))

\* C16 witness: a transformed element with a missing child and a foreign id
\* was validated, and both errors were reported
C16_Witness ==
    /\ vPc = "validated"
    /\ CountDiffers(ValTrees[vSeg], 1, vEl[1])
    /\ ForeignId(ValTrees[vSeg], vEl[1])
    /\ {"WrongTagCount", "UnexpectedId"} \subseteq ErrorKinds

\* A shape that fails only because an assigned id is met on no child
C16_LostIdReached ==
    /\ vPc = "validated"
    /\ ErrorKinds = {"UnresolvedId"}

(***************************************************************************)
(* Properties of truncate_score_segment.                                   *)
(***************************************************************************)
\* The number of text tokens a call may keep, and the tokens it was given
RemainTextTokens == sCall.remain_score - fixed_score(sCall.seg[1])

GivenTokens == sCall.seg[1].text_tokens

\* The text of the first n, and of the last n, of the given tokens (all of
\* them when there are fewer)
FirstTokensText(n) ==
    Flatten([i \in 1..(IF n < Len(GivenTokens) THEN n ELSE Len(GivenTokens)) |->
               GivenTokens[i]])

LastTokensText(n) ==
    Flatten([i \in 1..(IF n < Len(GivenTokens) THEN n ELSE Len(GivenTokens)) |->
               GivenTokens[Len(GivenTokens) - (IF n < Len(GivenTokens) THEN n
                                               ELSE Len(GivenTokens)) + i]])

KeptText == IF sCall.remain_head THEN FirstTokensText(RemainTextTokens)
            ELSE LastTokensText(RemainTextTokens)

\* C24: a returned segment holds the text of the first remain_text_tokens
\* tokens (remain_head) or of the last remain_text_tokens tokens (otherwise)
\* of the given text, the whole text when it has fewer tokens, with the
\* ellipsis and one space on the cut side; a kept text that is all
\* whitespace gives no segment, and nothing else with a budget above the
\* fixed score does.
C24_KeepsHeadOrTail ==
    (sPc = "called" /\ RemainTextTokens >= 1) =>
        /\ sCall.res = <<>> <=> IsBlank(KeptText)
        /\ sCall.res # <<>> =>
              /\ sCall.remain_head =>
                    sCall.res[1].text = KeptText \o <<" ", ".", ".", ".">>
              /\ ~sCall.remain_head =>
                    sCall.res[1].text = <<".", ".", ".", " ">> \o KeptText
              /\ RemainTextTokens >= Len(GivenTokens) => KeptText = sCall.seg[1].text

\* C24 witness: a call that kept the last tokens of a longer text
C24_Witness ==
    /\ sPc = "called"
    /\ sCall.res # <<>>
    /\ ~sCall.remain_head
    /\ RemainTextTokens >= 2
    /\ RemainTextTokens < Len(GivenTokens)

\* A kept text of whitespace only is met as well
C24_BlankKeptReached ==
    /\ sPc = "called"
    /\ RemainTextTokens >= 1
    /\ sCall.res = <<>>

C26_OnlyShrinks ==
    (sPc = "called" /\ sCall.res # <<>>) =>
        /\ sCall.res[1].score <= sCall.seg[1].score
        /\ sCall.remain_score >= sCall.seg[1].score =>
              Len(sCall.res[1].text) <= Len(sCall.seg[1].text)

\* What holds of the score: it is the budget given, so it is below the
\* score of the segment whenever the budget is
C26_ScoreIsBudget ==
    (sPc = "called" /\ sCall.res # <<>>) => sCall.res[1].score = sCall.remain_score

(***************************************************************************)
(* Properties of xml_to_latex.                                             *)
(***************************************************************************)
\* The children a recognised tag needs before it reads them
NeededChildren(tag) ==
    IF tag \in {"mfrac", "msub", "msup", "mroot", "munder", "mover"} THEN 2
    ELSE IF tag \in {"msubsup", "munderover"} THEN 3
    ELSE 0

RECURSIVE MathElems(_)
MathElems(e) == {e} \cup UNION {MathElems(e.kids[i]) : i \in 1..Len(e.kids)}

RowlessTable(e) == e.tag = "mtable" /\ \A i \in 1..Len(e.kids) : e.kids[i].tag # "mtr"

\* C30 as stated: xml_to_latex returns a string for every element tree and
\* never raises; a recognised tag with fewer children than it needs and an
\* mtable without an mtr row give a string, and an unknown tag gives the
\* concatenation of the results of its children.
C30_TotalAndStateless ==
    mPc = "done" =>
        /\ mRes[1].ok
        /\ mEl[1].tag = "semantics" =>
              mRes[1].str = Flatten([i \in 1..Len(mEl[1].kids) |->
                                       xml_to_latex(mEl[1].kids[i]).str])

\* What holds: a tree holding no mtable without rows is converted to a
\* string, a recognised tag with too few children to the empty string, an
\* unknown tag to the joined results of its children
C30_TotalWithoutRowlessTable ==
    (mPc = "done" /\ \A e \in MathElems(mEl[1]) : ~RowlessTable(e)) =>
        /\ mRes[1].ok
        /\ Len(mEl[1].kids) < NeededChildren(mEl[1].tag) => mRes[1].str = <<>>
        /\ mEl[1].tag = "semantics" =>
              mRes[1].str = Flatten([i \in 1..Len(mEl[1].kids) |->
                                       xml_to_latex(mEl[1].kids[i]).str])

\* An mtable without rows raises, whatever is around it
C30_RowlessTableRaises ==
    (mPc = "done" /\ RowlessTable(mEl[1])) => ~mRes[1].ok

C30_TooFewChildrenReached ==
    /\ mPc = "done"
    /\ mEl[1].tag = "msubsup"
    /\ Len(mEl[1].kids) = 2
    /\ mRes[1] = Returns(<<>>)

C30_TableWithRowsReached ==
    /\ mPc = "done"
    /\ mEl[1].tag = "mtable"
    /\ mRes[1].ok
    /\ mRes[1].str[2] = "2"

=============================================================================
